---- MODULE Spec2Model ----
(***************************************************************************)
(* Pipeline execution engine of execx: stage materialisation, in-memory    *)
(* pipe wiring, start/wait orchestration, per-stage Result computation,    *)
(* pipe-mode reduction and the asynchronous Process handle.                *)
(***************************************************************************)
EXTENDS Integers, Sequences, FiniteSets, TLC

(* ---------------------------- bounds ----------------------------------- *)
MaxStages == 2        \* longest chain built by Pipe
MaxChunks == 2        \* output chunks a source process writes at most
OsPipeCap == 1        \* chunks an OS pipe buffers before a writer blocks
MaxCtx == 1           \* stages of one chain that get a context bound

(* ------------------------ program constants ---------------------------- *)
pipeStrict == 0
pipeBestEffort == 1

ExitCodes == {0, 2}   \* exit codes a process may choose for itself

Stages == 1..MaxStages
None == <<>>          \* "no chunk" marker for one-slot holders

VARIABLES
  \* ---- builder state (Cmd chain) ----
  n,            \* number of Cmd nodes linked from the root through next
  pipeMode,     \* root.pipeMode
  usePTY,       \* root.usePTY
  ptySupported, \* answer of ptyCheckFunc: "unchecked" | "yes" | "no"
  ctx,          \* per stage def.ctx: "none" | "live" | "done"
  \* ---- control of the one execution call ----
  entry,        \* "none" | "Run" | "CombinedOutput" | "PipelineResults" | "Start"
  pc,           \* "idle" | "start" | "wait" | "drain" | "reduce" | "report" | "done"
  idx,          \* loop index of pipeline.start / pipeline.wait
  withCombined, \* pipeline.withCombined
  handle,       \* Start has returned the *Process to the caller
  \* ---- stage fields ----
  setupErr, startErr, waitErr,
  pwClosed,     \* stage.pipeWriter has been closed
  stdoutBuf, stderrBuf, combinedBuf,
  onStdout, onStderr,    \* line callbacks: [set, lines], lines received so far
  lineBuf,      \* ptyLineWriter.buf: the chunks of the unfinished line
  ptyMaster, ptySlave,   \* "nil" | "open" | "closed"
  ptyDone,      \* "nil" (no channel) | "empty" | "ok" | "err"
  \* ---- os/exec and OS state per stage ----
  proc,         \* cmd.Process: "none" | "running" | "exited"
  exitStatus,   \* wait status of an exited process: [code, sig]
  waited,       \* cmd.Wait returned, cmd.ProcessState is set
  watchErr,     \* exec's context watcher recorded ctx.Err()
  kind,         \* behaviour of the program: "src" | "filter"
  written,      \* chunks a source has written so far
  errWritten,   \* the program has written its stderr chunk
  osOut,        \* OS pipe child stdout -> stdout copy goroutine
  pending,      \* chunk a blocked io.PipeWriter.Write is offering
  inGo,         \* stdin copy goroutine: "none" | "run" | "done"
  inHold,       \* chunk the stdin copy goroutine has read and not yet written
  osIn,         \* OS pipe stdin copy goroutine -> child stdin
  inClosed,     \* write end of the child's stdin pipe is closed (EOF)
  ptyBuf,       \* bytes written to the PTY slave, not yet read from master
  closes,       \* per stage: number of Close calls on [master, slave]
  \* ---- outcome ----
  results,      \* the []Result returned by pipeline.results()
  ret,          \* what the entry point returned: [result, err, combined, list]
  done,         \* Process.done is closed
  procResult,   \* Process.result
  \* ---- Process handle and its callers ----
  resultOnce,   \* Process.resultOnce has fired
  finishCalls,  \* number of Process.finish calls made so far
  procPipeline, \* Process.pipeline # nil
  call,         \* the handle operation a caller has in flight
  returned,     \* the handle operation that returned last
  calls,        \* number of handle operations begun so far
  killTimer,    \* Process.killTimer: [state, i, arms, due, firedAt]
  waits,        \* what the Wait calls returned so far
  oldTimers,    \* the timers earlier KillAfter calls created, oldest first
  now,          \* time elapsed since Start returned the handle
  armedLate,    \* some KillAfter found the previous timer already fired
  \* ---- the chain as its Cmd nodes hold it ----
  recv,         \* index of the Cmd the execution call was made on
  stageMode,    \* pipeMode field of the Cmds that Pipe created (stages 2..n)
  lastMode,     \* <<m>> for the last PipeStrict / PipeBestEffort call, else <<>>
  \* ---- the contexts of the first Cmd ----
  ctxs,         \* the contexts created so far: [kind, parent, state]
  cmdCtx,       \* c.ctx: index into ctxs, 0 for nil
  cmdCancel,    \* c.cancel: index of the context it cancels, 0 for nil
  \* ---- history of the execution ----
  events,       \* spawn attempts and OS waits so far: <<"spawn" | "wait", i>>
  fed,          \* per stage: the chunks read from its io.PipeReader so far
  opens,        \* number of successful opens of [master, slave]
  \* ---- stderr of a stage outside PTY mode, and the shared combined buffer ----
  osErr,        \* OS pipe child stderr -> stderr copy goroutine
  inComb,       \* per stage: the Writes in progress on combinedBuf, [out, err, raced]
  produced      \* per stage: the chunks the child has written, in its own order

cfgVars   == <<n, pipeMode, usePTY, ptySupported>>
ctlVars   == <<entry, pc, idx, withCombined, handle>>
stageVars == <<setupErr, startErr, waitErr, pwClosed>>
cbVars    == <<onStdout, onStderr, lineBuf>>
bufVars   == <<stdoutBuf, stderrBuf, combinedBuf, cbVars>>
ptyVars   == <<ptyMaster, ptySlave, ptyDone, ptyBuf, closes>>
osVars    == <<proc, exitStatus, waited, watchErr, kind, written, errWritten>>
pipeVars  == <<osOut, pending, inGo, inHold, osIn, inClosed>>
outVars   == <<results, ret, done, procResult>>
tmrVars   == <<killTimer, oldTimers, now, armedLate>>
hndVars   == <<resultOnce, finishCalls, procPipeline, call, returned, calls,
               tmrVars, waits>>
bindVars  == <<ctxs, cmdCtx, cmdCancel>>
chainVars == <<recv, stageMode, lastMode, bindVars>>
logVars   == <<events, fed, opens>>
combVars  == <<osErr, inComb, produced>>
auxVars   == <<chainVars, logVars, combVars>>

vars == <<cfgVars, ctx, ctlVars, stageVars, bufVars, ptyVars, osVars,
          pipeVars, outVars, hndVars, auxVars>>

(* ------------------------------ errors --------------------------------- *)
NilErr      == [kind |-> "nil", wrapped |-> "nil"]
CtxErr      == [kind |-> "ctx", wrapped |-> "canceled"]
DeadlineErr == [kind |-> "ctx", wrapped |-> "deadline"]
ErrPTYPipe  == [kind |-> "config", wrapped |-> "ptyPipeline"]
ErrPTYPlat  == [kind |-> "config", wrapped |-> "ptyUnsupported"]
ErrExec(e)  == [kind |-> "ErrExec", wrapped |-> e]

NoStatus    == [code |-> -1, sig |-> "nil"]
ZeroResult  == [Stdout |-> <<>>, Stderr |-> <<>>, ExitCode |-> 0,
                Err |-> NilErr, signal |-> "nil"]
NoRet       == [result |-> ZeroResult, err |-> NilErr, combined |-> <<>>,
                list |-> <<>>]

\* no handle operation in flight / none returned yet
NoCall      == [name |-> "none", asked |-> "nil", positive |-> FALSE,
                sig |-> "nil", phase |-> "idle", i |-> 0, count |-> 0, firstErr |-> "nil",
                elapsed |-> FALSE, late |-> FALSE, tried |-> {}]
NoReturn    == [name |-> "none", asked |-> "nil", positive |-> FALSE,
                err |-> "nil", branch |-> "none", late |-> FALSE,
                wasDone |-> FALSE, tried |-> {}]
NoCallback  == [set |-> FALSE, lines |-> <<>>]
NoWrite     == [out |-> None, err |-> None, raced |-> FALSE]
NoTimer     == [state |-> "nil", i |-> 0, arms |-> 0, due |-> 0, firedAt |-> 0]

(* ------------------------- pure helpers -------------------------------- *)
hasPipe(i)   == i < n                 \* stage i owns a pipeWriter (newPipeline)
Room(q)      == Len(q) < OsPipeCap

\* signalFromState losing the terminating signal
signalFromStateLost(st) == "nil"

\* signalFromState: the terminating signal of a wait status
signalFromState(st) == st.sig

\* exec.Cmd.Wait's return value for an exited process: an ExitError when the
\* status is not success, else what the context watcher recorded.
cmdWaitErr(i) ==
  IF exitStatus[i].code # 0 THEN "exit"
  ELSE IF watchErr[i] THEN "ctx" ELSE "nil"

\* stage.result with a nonzero exit reported as an error
stageResultExitIsErr(i) ==
  LET res == [Stdout |-> stdoutBuf[i], Stderr |-> stderrBuf[i],
              ExitCode |-> -1, Err |-> NilErr, signal |-> "nil"]
  IN IF startErr[i] # "nil"
       THEN [res EXCEPT !.Err = ErrExec(startErr[i])]
       ELSE [res EXCEPT !.Err = IF waitErr[i] = "ctx" THEN CtxErr
                                ELSE IF waitErr[i] # "nil"
                                  THEN [kind |-> "exit", wrapped |-> "nil"]
                                ELSE NilErr,
                        !.ExitCode = IF waited[i] THEN exitStatus[i].code ELSE -1,
                        !.signal = IF waited[i] THEN exitStatus[i].sig ELSE "nil"]

\* stage.result with the start error left off the Result
stageResultDropStartErr(i) ==
  LET res == [Stdout |-> stdoutBuf[i], Stderr |-> stderrBuf[i],
              ExitCode |-> -1, Err |-> NilErr, signal |-> "nil"]
  IN IF startErr[i] # "nil" THEN res
     ELSE [res EXCEPT !.Err = IF waitErr[i] = "ctx" THEN CtxErr
                              ELSE IF waitErr[i] # "nil" /\ ctx[i] = "done"
                                THEN CtxErr ELSE NilErr,
                      !.ExitCode = IF waited[i] THEN exitStatus[i].code ELSE -1,
                      !.signal = IF waited[i] THEN exitStatus[i].sig ELSE "nil"]

\* stage.result without the look at the stage's context
stageResultNoFallback(i) ==
  LET res == [Stdout |-> stdoutBuf[i], Stderr |-> stderrBuf[i],
              ExitCode |-> -1, Err |-> NilErr, signal |-> "nil"]
  IN IF startErr[i] # "nil"
       THEN [res EXCEPT !.Err = ErrExec(startErr[i])]
       ELSE [res EXCEPT !.Err = IF waitErr[i] = "ctx" THEN CtxErr ELSE NilErr,
                        !.ExitCode = IF waited[i] THEN exitStatus[i].code ELSE -1,
                        !.signal = IF waited[i] THEN exitStatus[i].sig ELSE "nil"]

\* stage.result looking at the stage's context whatever the wait returned
stageResultFallbackAlways(i) ==
  LET res == [Stdout |-> stdoutBuf[i], Stderr |-> stderrBuf[i],
              ExitCode |-> -1, Err |-> NilErr, signal |-> "nil"]
  IN IF startErr[i] # "nil"
       THEN [res EXCEPT !.Err = ErrExec(startErr[i])]
       ELSE [res EXCEPT !.Err = IF waitErr[i] = "ctx" \/ ctx[i] = "done"
                                  THEN CtxErr ELSE NilErr,
                        !.ExitCode = IF waited[i] THEN exitStatus[i].code ELSE -1,
                        !.signal = IF waited[i] THEN exitStatus[i].sig ELSE "nil"]

\* stage.result looking at the context of the root command
stageResultRootCtx(i) ==
  LET res == [Stdout |-> stdoutBuf[i], Stderr |-> stderrBuf[i],
              ExitCode |-> -1, Err |-> NilErr, signal |-> "nil"]
  IN IF startErr[i] # "nil"
       THEN [res EXCEPT !.Err = ErrExec(startErr[i])]
       ELSE [res EXCEPT !.Err = IF waitErr[i] = "ctx" THEN CtxErr
                                ELSE IF waitErr[i] # "nil" /\ ctx[1] = "done"
                                  THEN CtxErr ELSE NilErr,
                        !.ExitCode = IF waited[i] THEN exitStatus[i].code ELSE -1,
                        !.signal = IF waited[i] THEN exitStatus[i].sig ELSE "nil"]

\* stage.result
stageResult(i) ==
  LET res == [Stdout |-> stdoutBuf[i], Stderr |-> stderrBuf[i],
              ExitCode |-> -1, Err |-> NilErr, signal |-> "nil"]
  IN IF startErr[i] # "nil"
       THEN [res EXCEPT !.Err = ErrExec(startErr[i])]
       ELSE LET e1 == IF waitErr[i] = "ctx" THEN CtxErr ELSE NilErr
                e2 == IF waitErr[i] # "nil" /\ e1 = NilErr /\ ctx[i] = "done"
                        THEN CtxErr ELSE e1
            IN IF waited[i]
                 THEN [res EXCEPT !.Err = e2,
                                  !.ExitCode = exitStatus[i].code,
                                  !.signal = signalFromState(exitStatus[i])]
                 ELSE [res EXCEPT !.Err = e2]

\* pipeline.results
pipelineResults == [i \in 1..n |-> stageResult(i)]

\* the strict scan of primaryResult: first index that failed, 0 when none
RECURSIVE scanFail(_, _)
scanFail(rs, i) ==
  IF i > Len(rs) THEN 0
  ELSE IF rs[i].ExitCode # 0 \/ rs[i].Err # NilErr THEN i
  ELSE scanFail(rs, i + 1)

\* the error scan of primaryResult and firstResultErr: first non-nil Err
RECURSIVE scanErr(_, _)
scanErr(rs, i) ==
  IF i > Len(rs) THEN NilErr
  ELSE IF rs[i].Err # NilErr THEN rs[i].Err
  ELSE scanErr(rs, i + 1)

\* the strict scan without its break: the last index that failed
RECURSIVE scanLastFail(_, _)
scanLastFail(rs, i) ==
  IF i = 0 THEN 0
  ELSE IF rs[i].ExitCode # 0 \/ rs[i].Err # NilErr THEN i
  ELSE scanLastFail(rs, i - 1)

primaryIndexNoBreak(rs, mode) ==
  IF mode = pipeStrict /\ scanLastFail(rs, Len(rs)) # 0
    THEN scanLastFail(rs, Len(rs)) ELSE Len(rs)

primaryIndex(rs, mode) ==
  IF mode = pipeStrict /\ scanFail(rs, 1) # 0 THEN scanFail(rs, 1) ELSE Len(rs)

\* primaryResult without the best-effort error copy
primaryResultNoCopy(rs, mode) == rs[primaryIndex(rs, mode)]

\* primaryResult copying the first error in either mode
primaryResultAlwaysCopy(rs, mode) ==
  LET primary == rs[primaryIndex(rs, mode)]
  IN IF primary.Err = NilErr THEN [primary EXCEPT !.Err = scanErr(rs, 1)]
                             ELSE primary

\* primaryResult copying the last stage's error over the first one found
primaryResultLastErr(rs, mode) ==
  LET primary == rs[primaryIndex(rs, mode)]
      E == {i \in 1..Len(rs) : rs[i].Err # NilErr}
  IN IF mode = pipeBestEffort /\ primary.Err = NilErr /\ E # {}
       THEN [primary EXCEPT !.Err = rs[CHOOSE i \in E : \A j \in E : j <= i].Err]
       ELSE primary

\* pipeline.primaryResult: the reported Result
primaryResult(rs, mode) ==
  LET primary == rs[primaryIndex(rs, mode)]
  IN IF mode = pipeBestEffort /\ primary.Err = NilErr
       THEN [primary EXCEPT !.Err = scanErr(rs, 1)]
       ELSE primary

\* primaryResult returning the combined buffers of all stages, one after
\* the other
RECURSIVE concatCombined(_)
concatCombined(i) ==
  IF i = 0 THEN <<>> ELSE concatCombined(i - 1) \o combinedBuf[i]

primaryCombinedAll(rs, mode) ==
  IF withCombined THEN concatCombined(Len(rs)) ELSE <<>>

\* pipeline.primaryResult: the combined string
primaryCombined(rs, mode) ==
  IF withCombined THEN combinedBuf[primaryIndex(rs, mode)] ELSE <<>>

\* PipelineResults returning the error of the Result the pipe mode selects
firstResultErrOfPrimary(rs) == primaryResult(rs, pipeMode).Err

\* firstResultErr: the Err of the first Result that has one
firstResultErr(rs) == scanErr(rs, 1)

\* validatePTY without the pipeline check
validatePTYNoPipeCheck(supported) ==
  IF ~usePTY THEN NilErr
  ELSE IF ~supported THEN ErrPTYPlat
  ELSE NilErr

\* Cmd.validatePTY, given the answer of ptyCheckFunc
validatePTY(supported) ==
  IF ~usePTY THEN NilErr
  ELSE IF n > 1 THEN ErrPTYPipe
  ELSE IF ~supported THEN ErrPTYPlat
  ELSE NilErr

(* ------------------------------ Init ----------------------------------- *)
\* everything but the chain shape, the pipe mode, the control state, the
\* stdout pipes and the stdout line callback
InitBase ==
  /\ usePTY = FALSE
  /\ ptySupported = "unchecked"
  /\ ctx = [i \in Stages |-> "none"]
  /\ idx = 0
  /\ withCombined = FALSE /\ handle = FALSE
  /\ setupErr = [i \in Stages |-> "nil"]
  /\ startErr = [i \in Stages |-> "nil"]
  /\ waitErr = [i \in Stages |-> "nil"]
  /\ pwClosed = [i \in Stages |-> FALSE]
  /\ stdoutBuf = [i \in Stages |-> <<>>]
  /\ stderrBuf = [i \in Stages |-> <<>>]
  /\ combinedBuf = [i \in Stages |-> <<>>]
  /\ onStderr = NoCallback /\ lineBuf = <<>>
  /\ ptyMaster = "nil" /\ ptySlave = "nil" /\ ptyDone = "nil"
  /\ ptyBuf = <<>> /\ closes = [master |-> 0, slave |-> 0]
  /\ proc = [i \in Stages |-> "none"]
  /\ exitStatus = [i \in Stages |-> NoStatus]
  /\ waited = [i \in Stages |-> FALSE]
  /\ watchErr = [i \in Stages |-> FALSE]
  /\ kind = [i \in Stages |-> "src"]
  /\ written = [i \in Stages |-> 0]
  /\ errWritten = [i \in Stages |-> FALSE]
  /\ pending = [i \in Stages |-> None]
  /\ inGo = [i \in Stages |-> "none"]
  /\ inHold = [i \in Stages |-> None]
  /\ osIn = [i \in Stages |-> <<>>]
  /\ inClosed = [i \in Stages |-> FALSE]
  /\ ret = NoRet /\ done = FALSE /\ procResult = ZeroResult
  /\ resultOnce = FALSE /\ finishCalls = 0 /\ procPipeline = FALSE
  /\ call = NoCall /\ returned = NoReturn /\ calls = 0
  /\ killTimer = NoTimer /\ waits = <<>>
  /\ oldTimers = <<>> /\ now = 0 /\ armedLate = FALSE
  /\ recv = 1 /\ stageMode = [i \in Stages |-> pipeStrict] /\ lastMode = <<>>
  /\ ctxs = <<>> /\ cmdCtx = 0 /\ cmdCancel = 0
  /\ events = <<>> /\ fed = [i \in Stages |-> <<>>]
  /\ opens = [master |-> 0, slave |-> 0]
  /\ osErr = [i \in Stages |-> <<>>]
  /\ inComb = [i \in Stages |-> NoWrite]
  /\ produced = [i \in Stages |-> <<>>]

\* everything but the chain shape, the pipe mode and the control state
InitRest ==
  /\ InitBase
  /\ osOut = [i \in Stages |-> <<>>]
  /\ onStdout = NoCallback

\* Command(name, args...): one Cmd, strict mode, nothing executed yet
Init ==
  /\ n = 1 /\ pipeMode = pipeStrict
  /\ entry = "none" /\ pc = "idle"
  /\ results = <<>>
  /\ InitRest

(* --------------------------- builder calls ----------------------------- *)
\* rootCmd answering the Cmd it is called on
rootCmdSelf(r) == r

\* Cmd.rootCmd: every Cmd of a chain points to the first one
rootCmd(r) == 1

\* the pipeMode field of the Cmd at index r
nodeMode(r) == IF r = 1 THEN pipeMode ELSE stageMode[r]

\* c.rootCmd().pipeMode = m, for the Cmd c at index r
setMode(r, m) ==
  IF rootCmd(r) = 1
    THEN pipeMode' = m /\ UNCHANGED stageMode
    ELSE stageMode' = [stageMode EXCEPT ![rootCmd(r)] = m] /\ UNCHANGED pipeMode

\* Cmd.Pipe called on the Cmd at index r: a new Cmd with a copy of the root's
\* pipeMode is linked after the last one
PipeOn(r) ==
  /\ pc = "idle" /\ r \in 1..n /\ n < MaxStages
  /\ n' = n + 1
  /\ stageMode' = [stageMode EXCEPT ![n + 1] = nodeMode(rootCmd(r))]
  /\ UNCHANGED <<pipeMode, usePTY, ptySupported, ctx, ctlVars, stageVars,
                 bufVars, ptyVars, osVars, pipeVars, outVars, hndVars,
                 recv, lastMode, bindVars, logVars, combVars>>

\* Cmd.Pipe: append a stage to the chain
Pipe == \E r \in Stages : PipeOn(r)

\* PipeStrict / PipeBestEffort called on the Cmd at index r
SetModeOn(r, m) ==
  /\ pc = "idle" /\ r \in 1..n
  /\ setMode(r, m)
  /\ lastMode' = <<m>>
  /\ UNCHANGED <<n, usePTY, ptySupported, ctx, ctlVars, stageVars,
                 bufVars, ptyVars, osVars, pipeVars, outVars, hndVars,
                 recv, bindVars, logVars, combVars>>

\* Cmd.PipeStrict
PipeStrict == \E r \in Stages : SetModeOn(r, pipeStrict)

\* Cmd.PipeBestEffort
PipeBestEffort == \E r \in Stages : SetModeOn(r, pipeBestEffort)

\* Cmd.WithPTY
WithPTY ==
  /\ pc = "idle"
  /\ usePTY' = TRUE
  /\ UNCHANGED <<n, pipeMode, ptySupported, ctx, ctlVars, stageVars,
                 bufVars, ptyVars, osVars, pipeVars, outVars, hndVars, auxVars>>

\* Cmd.OnStdout: register a line callback for stdout
OnStdout ==
  /\ pc = "idle" /\ ~onStdout.set
  /\ onStdout' = [onStdout EXCEPT !.set = TRUE]
  /\ UNCHANGED <<cfgVars, auxVars, ctx, ctlVars, stageVars, stdoutBuf, stderrBuf,
                 combinedBuf, onStderr, lineBuf, ptyVars, osVars, pipeVars,
                 outVars, hndVars>>

\* Cmd.OnStderr: register a line callback for stderr
OnStderr ==
  /\ pc = "idle" /\ ~onStderr.set
  /\ onStderr' = [onStderr EXCEPT !.set = TRUE]
  /\ UNCHANGED <<cfgVars, auxVars, ctx, ctlVars, stageVars, stdoutBuf, stderrBuf,
                 combinedBuf, onStdout, lineBuf, ptyVars, osVars, pipeVars,
                 outVars, hndVars>>

\* Cmd.WithContext / WithTimeout / WithDeadline on stage i: bind a live context
WithContext(i) ==
  /\ pc = "idle" /\ i \in 1..n /\ ctx[i] = "none"
  /\ Cardinality({j \in 1..n : ctx[j] # "none"}) < MaxCtx
  /\ ctx' = [ctx EXCEPT ![i] = "live"]
  /\ UNCHANGED <<cfgVars, auxVars, ctlVars, stageVars, bufVars, ptyVars, osVars,
                 pipeVars, outVars, hndVars>>

\* cancellation or expiry of the context bound to stage i.  exec's watcher
\* kills a process that is still running; a process that has exited and is
\* not yet reaped may or may not accept the kill (OS dependent).
CtxFire(i) ==
  /\ i \in 1..n /\ ctx[i] = "live" /\ pc \notin {"report", "finish", "done"}
  /\ ctx' = [ctx EXCEPT ![i] = "done"]
  /\ \/ /\ proc[i] = "running"
        /\ proc' = [proc EXCEPT ![i] = "exited"]
        /\ exitStatus' = [exitStatus EXCEPT ![i] = [code |-> -1, sig |-> "killed"]]
        /\ watchErr' = [watchErr EXCEPT ![i] = TRUE]
        /\ osIn' = [osIn EXCEPT ![i] = <<>>]
     \/ /\ proc[i] = "exited" /\ ~waited[i]
        /\ \E w \in BOOLEAN : watchErr' = [watchErr EXCEPT ![i] = w]
        /\ UNCHANGED <<proc, exitStatus, osIn>>
     \/ /\ proc[i] = "none" \/ waited[i]
        /\ UNCHANGED <<proc, exitStatus, watchErr, osIn>>
  /\ UNCHANGED <<cfgVars, auxVars, ctlVars, stageVars, bufVars, ptyVars, waited, kind,
                 written, errWritten, osOut, pending, inGo, inHold, inClosed,
                 outVars, hndVars>>

(* ----------------------- execution entry points ------------------------ *)
\* Result{Err: err, ExitCode: -1}
ErrResult(err) == [ZeroResult EXCEPT !.Err = err, !.ExitCode = -1]

\* the step of openPTYWith that fails, if any: opening /dev/ptmx, the unlock
\* ioctl, the ioctl asking for the PTY number, opening the slave
PtyFailures == {"none", "ptmx", "unlock", "ptn", "slave"}

\* openPTYWith keeping the master open when opening the slave fails
openPTYLeaky(failAt) ==
  [master |-> IF failAt = "none" THEN "open" ELSE "nil",
   slave  |-> IF failAt = "none" THEN "open" ELSE "nil",
   err    |-> failAt # "none",
   opened |-> [master |-> IF failAt = "ptmx" THEN 0 ELSE 1,
               slave  |-> IF failAt = "none" THEN 1 ELSE 0],
   closed |-> [master |-> IF failAt \in {"unlock", "ptn"} THEN 1 ELSE 0,
               slave  |-> 0]]

\* openPTYWith: the files returned, whether it failed, and the opens and
\* Close calls it made
openPTYWith(failAt) ==
  [master |-> IF failAt = "none" THEN "open" ELSE "nil",
   slave  |-> IF failAt = "none" THEN "open" ELSE "nil",
   err    |-> failAt # "none",
   opened |-> [master |-> IF failAt = "ptmx" THEN 0 ELSE 1,
               slave  |-> IF failAt = "none" THEN 1 ELSE 0],
   closed |-> [master |-> IF failAt \in {"unlock", "ptn", "slave"} THEN 1 ELSE 0,
               slave  |-> 0]]

\* Run / CombinedOutput / PipelineResults / Start called on the Cmd at index
\* r, up to the first spawn: validatePTY, the early return on a configuration
\* error, newPipeline.
CallOn(e, r) ==
  /\ pc = "idle" /\ entry' = e
  /\ r \in 1..n /\ recv' = r
  /\ \E sup \in BOOLEAN, failAt \in PtyFailures :
       LET asked == usePTY /\ n = 1
           err   == validatePTY(sup)
           pty   == openPTYWith(failAt)
       IN
       /\ asked \/ sup
       /\ ptySupported' = IF asked THEN (IF sup THEN "yes" ELSE "no")
                                   ELSE ptySupported
       /\ IF err # NilErr
            THEN /\ failAt = "none"
                 /\ pc' = "done" /\ idx' = 0
                 /\ handle' = (e = "Start")
                 /\ done' = (e = "Start")
                 /\ resultOnce' = (e = "Start")
                 /\ finishCalls' = IF e = "Start" THEN 1 ELSE 0
                 /\ procPipeline' = FALSE
                 /\ procResult' = IF e = "Start" THEN ErrResult(err)
                                                 ELSE procResult
                 /\ ret' = CASE e = "Run" -> [NoRet EXCEPT !.result = ErrResult(err),
                                                          !.err = err]
                             [] e = "Start" -> NoRet
                             [] OTHER -> [NoRet EXCEPT !.err = err]
                 /\ UNCHANGED <<withCombined, setupErr, ptyMaster, ptySlave,
                                closes, opens>>
            ELSE /\ usePTY \/ failAt = "none"
                 /\ pc' = "start" /\ idx' = 1
                 /\ withCombined' = (e = "CombinedOutput")
                 /\ setupErr' = IF usePTY /\ pty.err
                                  THEN [setupErr EXCEPT ![1] = "setup"]
                                  ELSE setupErr
                 /\ ptyMaster' = IF usePTY /\ ~pty.err THEN pty.master ELSE ptyMaster
                 /\ ptySlave' = IF usePTY /\ ~pty.err THEN pty.slave ELSE ptySlave
                 /\ opens' = IF usePTY
                               THEN [master |-> opens.master + pty.opened.master,
                                     slave  |-> opens.slave + pty.opened.slave]
                               ELSE opens
                 /\ closes' = IF usePTY
                                THEN [master |-> closes.master + pty.closed.master,
                                      slave  |-> closes.slave + pty.closed.slave]
                                ELSE closes
                 /\ procPipeline' = (e = "Start")
                 /\ UNCHANGED <<handle, done, procResult, ret, resultOnce,
                                finishCalls>>
  /\ UNCHANGED <<n, pipeMode, usePTY, ctx, startErr, waitErr, pwClosed,
                 bufVars, ptyDone, ptyBuf, osVars, pipeVars, results,
                 call, returned, calls, tmrVars, waits, stageMode, lastMode,
                 bindVars, events, fed, combVars>>

\* an entry point called at the end of a fluent chain, on the Cmd that the
\* last Pipe returned
Call(e) == CallOn(e, n)

\* the failed stage alone gets the start error
markOnlyFailed(i, err) == [startErr EXCEPT ![i] = err]

\* pipeline.start on a failed spawn of stage i: the stage and every later
\* stage get the start error
markStartErr(i, err) ==
  [j \in Stages |-> IF j >= i /\ j <= n THEN err ELSE startErr[j]]

\* Start handing out the handle while pipeline.start is still spawning
handleAfterFirst(i, failed) == TRUE

\* whether Start returns the handle after iteration i of pipeline.start:
\* only when the loop has ended, by a failed spawn or after the last stage
handleAfter(i, failed) == failed \/ i = n

\* leaving the loop of pipeline.start; Start then launches the background
\* goroutine
EndStart ==
  /\ pc' = "wait" /\ idx' = 1

\* one iteration of the loop of pipeline.start
StartStage ==
  /\ pc = "start"
  /\ LET i == idx IN
     \/ /\ setupErr[i] # "nil"
        /\ startErr' = [startErr EXCEPT ![i] = setupErr[i]]
        /\ EndStart
        /\ handle' = (entry = "Start" /\ handleAfter(i, TRUE))
        /\ UNCHANGED <<ptyMaster, ptySlave, ptyDone, closes, proc, kind, inGo,
                       events>>
     \/ /\ setupErr[i] = "nil"
        /\ events' = Append(events, <<"spawn", i>>)
        /\ \E found \in BOOLEAN, k \in (IF i = 1 THEN {"src"} ELSE {"src", "filter"}) :
             LET err == IF ~found THEN "notfound"
                        ELSE IF ctx[i] = "done" THEN "ctx" ELSE "nil"
             IN IF err # "nil"
                  THEN /\ found \/ k = "src"
                       /\ startErr' = markStartErr(i, err)
                       /\ ptyMaster' = IF ptyMaster # "nil" THEN "closed" ELSE ptyMaster
                       /\ ptySlave' = IF ptySlave # "nil" THEN "closed" ELSE ptySlave
                       /\ closes' = [master |-> closes.master + (IF ptyMaster # "nil" THEN 1 ELSE 0),
                                     slave |-> closes.slave + (IF ptySlave # "nil" THEN 1 ELSE 0)]
                       /\ EndStart
                       /\ handle' = (entry = "Start" /\ handleAfter(i, TRUE))
                       /\ UNCHANGED <<ptyDone, proc, kind, inGo>>
                  ELSE /\ proc' = [proc EXCEPT ![i] = "running"]
                       /\ kind' = [kind EXCEPT ![i] = k]
                       /\ inGo' = [inGo EXCEPT ![i] = IF i > 1 THEN "run" ELSE "none"]
                       /\ ptyDone' = IF ptyMaster # "nil" THEN "empty" ELSE ptyDone
                       /\ ptySlave' = IF ptyMaster # "nil" THEN "closed" ELSE ptySlave
                       /\ closes' = [closes EXCEPT !.slave = @ + (IF ptyMaster # "nil" THEN 1 ELSE 0)]
                       /\ IF i = n THEN EndStart
                                   ELSE idx' = i + 1 /\ UNCHANGED pc
                       /\ handle' = (entry = "Start" /\ handleAfter(i, FALSE))
                       /\ UNCHANGED <<startErr, ptyMaster>>
  /\ UNCHANGED <<cfgVars, chainVars, fed, opens, combVars, ctx, entry, withCombined, setupErr,
                 waitErr, pwClosed, bufVars, ptyBuf, exitStatus, waited,
                 watchErr, written, errWritten, osOut, pending, inHold, osIn,
                 inClosed, outVars, hndVars>>

\* pipeline.wait closing the pipe of waited stages only
closeOnlyWaited(i, started) ==
  IF started THEN [pwClosed EXCEPT ![i] = hasPipe(i)] ELSE pwClosed

\* pipeline.wait closing stage i's pipeWriter, if it has one, after its
\* cmd.Wait returned (started) or was skipped (not started)
closePipeWriter(i, started) == [pwClosed EXCEPT ![i] = hasPipe(i)]

\* exec.Cmd.Wait of stage i can return: the process has exited and the copy
\* goroutines of its stdout and stdin have finished
WaitReady(i) ==
  /\ proc[i] = "exited"
  /\ osOut[i] = <<>> /\ pending[i] = None
  /\ osErr[i] = <<>> /\ inComb[i].out = None /\ inComb[i].err = None
  /\ inGo[i] # "run"

\* pipeline.wait of a strict chain returning at the first stage that failed
NextWaitStrictStop(i) ==
  IF i = n \/ (pipeMode = pipeStrict /\ proc[i] = "exited" /\ exitStatus[i].code # 0)
    THEN pc' = "reduce" /\ idx' = i
    ELSE idx' = i + 1 /\ pc' = "wait"

\* pipeline.wait returning after its first iteration
NextWaitEnd(i) == pc' = "reduce" /\ idx' = i

\* advancing the loop of pipeline.wait
NextWait(i) ==
  IF i = n THEN pc' = "reduce" /\ idx' = i
           ELSE idx' = i + 1 /\ pc' = "wait"

\* one iteration of the loop of pipeline.wait, up to the PTY drain
WaitStage ==
  /\ pc = "wait"
  /\ LET i == idx IN
     IF startErr[i] # "nil"
       THEN /\ pwClosed' = closePipeWriter(i, FALSE)
            /\ NextWait(i)
            /\ UNCHANGED <<waitErr, waited, events>>
       ELSE /\ WaitReady(i)
            /\ events' = Append(events, <<"wait", i>>)
            /\ waitErr' = [waitErr EXCEPT ![i] = cmdWaitErr(i)]
            /\ waited' = [waited EXCEPT ![i] = TRUE]
            /\ pwClosed' = closePipeWriter(i, TRUE)
            /\ IF ptyDone # "nil" THEN pc' = "drain" /\ idx' = i
                                  ELSE NextWait(i)
  /\ UNCHANGED <<cfgVars, chainVars, fed, opens, combVars, ctx, entry, withCombined, handle,
                 setupErr, startErr, bufVars, ptyVars, proc, exitStatus,
                 watchErr, kind, written, errWritten, pipeVars, outVars,
                 hndVars>>

\* pipeline.wait not blocking on stage.ptyDone
drainReadyAlways(d) == TRUE

\* the receive from stage.ptyDone can complete: the drain goroutine has sent
\* the outcome of io.Copy
drainReady(d) == d \in {"ok", "err"}

\* pipeline.wait receiving from stage.ptyDone
WaitDrain ==
  /\ pc = "drain" /\ drainReady(ptyDone)
  /\ waitErr' = [waitErr EXCEPT ![idx] =
                   IF ptyDone = "err" /\ waitErr[idx] = "nil" THEN "drain"
                   ELSE waitErr[idx]]
  /\ ptyDone' = "taken"
  /\ NextWait(idx)
  /\ UNCHANGED <<cfgVars, auxVars, ctx, entry, withCombined, handle, setupErr, startErr,
                 pwClosed, bufVars, ptyMaster, ptySlave, ptyBuf, closes, osVars,
                 pipeVars, outVars, hndVars>>

\* pipeline.results, called by primaryResult and by PipelineResults once
\* pipeline.wait has returned
CollectResults ==
  /\ pc = "reduce"
  /\ results' = pipelineResults
  /\ pc' = "report"
  /\ UNCHANGED <<cfgVars, auxVars, ctx, entry, idx, withCombined, handle, stageVars,
                 bufVars, ptyVars, osVars, pipeVars, ret, done, procResult,
                 hndVars>>

\* c.rootCmd().pipeMode of the Cmd c the entry point was called on
modeUsed == nodeMode(rootCmd(recv))

\* the reduction of the collected results and the return of a synchronous
\* entry point
Report ==
  /\ pc = "report" /\ entry # "Start"
  /\ LET primary == primaryResult(results, modeUsed)
     IN ret' = CASE entry = "Run" ->
                      [NoRet EXCEPT !.result = primary, !.err = primary.Err]
                 [] entry = "CombinedOutput" ->
                      [NoRet EXCEPT !.combined = primaryCombined(results, modeUsed),
                                    !.err = primary.Err]
                 [] OTHER ->
                      [NoRet EXCEPT !.list = results,
                                    !.err = firstResultErr(results)]
  /\ pc' = "done"
  /\ UNCHANGED <<cfgVars, auxVars, ctx, entry, idx, withCombined, handle, stageVars,
                 bufVars, ptyVars, osVars, pipeVars, results, done, procResult,
                 hndVars>>

\* Process.finish closing done and never storing the result
finishStepNoStore(k) == "close"

\* Process.finish closing done before it stores the result
finishStepSwapped(k) == IF k = 1 THEN "close" ELSE "store"

\* the k-th effect of the function Process.finish runs under resultOnce
finishStep(k) == IF k = 1 THEN "store" ELSE "close"

\* Start's background goroutine after pipeline.wait: the reduction and
\* Process.finish, one effect of the once-guarded function per step
FinishStep ==
  /\ pc \in {"report", "finish"} /\ entry = "Start"
  /\ pc = "report" => ~resultOnce
  /\ LET k == IF pc = "report" THEN 1 ELSE 2
         primary == primaryResult(results, modeUsed)
     IN /\ procResult' = IF finishStep(k) = "store" THEN primary ELSE procResult
        /\ done' = (done \/ finishStep(k) = "close")
        /\ pc' = IF k = 1 THEN "finish" ELSE "done"
  /\ resultOnce' = TRUE
  /\ finishCalls' = IF pc = "report" THEN finishCalls + 1 ELSE finishCalls
  /\ UNCHANGED <<cfgVars, auxVars, ctx, entry, idx, withCombined, handle, stageVars,
                 bufVars, ptyVars, osVars, pipeVars, results, ret,
                 procPipeline, call, returned, calls, tmrVars, waits>>

(* --------------------- child processes (environment) ------------------- *)
Out(i, k) == <<i, k>>          \* k-th chunk a source at stage i prints
Tr(i, c)  == <<i>> \o c        \* stage i's transform of an input chunk
ErrOut(i) == <<i, 0>>          \* the chunk stage i prints on stderr

\* a source program writes a chunk to its stdout
ChildWrite(i) ==
  /\ i \in 1..n /\ proc[i] = "running" /\ kind[i] = "src"
  /\ written[i] < MaxChunks
  /\ written' = [written EXCEPT ![i] = @ + 1]
  /\ IF ptyMaster # "nil"
       THEN /\ Room(ptyBuf)
            /\ ptyBuf' = Append(ptyBuf, Out(i, written[i] + 1))
            /\ UNCHANGED osOut
       ELSE /\ Room(osOut[i])
            /\ osOut' = [osOut EXCEPT ![i] = Append(@, Out(i, written[i] + 1))]
            /\ UNCHANGED ptyBuf
  /\ produced' = [produced EXCEPT ![i] = Append(@, Out(i, written[i] + 1))]
  /\ UNCHANGED <<cfgVars, chainVars, logVars, osErr, inComb, ctx, ctlVars, stageVars, bufVars, ptyMaster, ptySlave,
                 ptyDone, closes, proc, exitStatus, waited, watchErr, kind,
                 errWritten, pending, inGo, inHold, osIn, inClosed, outVars, hndVars>>

\* a filter program reads a chunk from stdin and writes its transform
ChildFilter(i) ==
  /\ i \in 1..n /\ proc[i] = "running" /\ kind[i] = "filter"
  /\ osIn[i] # <<>> /\ Room(osOut[i])
  /\ osIn' = [osIn EXCEPT ![i] = Tail(@)]
  /\ osOut' = [osOut EXCEPT ![i] = Append(@, Tr(i, Head(osIn[i])))]
  /\ produced' = [produced EXCEPT ![i] = Append(@, Tr(i, Head(osIn[i])))]
  /\ UNCHANGED <<cfgVars, chainVars, logVars, osErr, inComb, ctx, ctlVars, stageVars, bufVars, ptyVars, osVars,
                 pending, inGo, inHold, inClosed, outVars, hndVars>>

\* a program in PTY mode writes its one stderr chunk to the PTY slave
ChildWriteErr(i) ==
  /\ i \in 1..n /\ proc[i] = "running" /\ ~errWritten[i]
  /\ ptyMaster # "nil" /\ Room(ptyBuf)
  /\ errWritten' = [errWritten EXCEPT ![i] = TRUE]
  /\ ptyBuf' = Append(ptyBuf, ErrOut(i))
  /\ produced' = [produced EXCEPT ![i] = Append(@, ErrOut(i))]
  /\ UNCHANGED <<cfgVars, chainVars, logVars, osErr, inComb, ctx, ctlVars, stageVars, bufVars, ptyMaster, ptySlave,
                 ptyDone, closes, proc, exitStatus, waited, watchErr, kind,
                 written, pipeVars, outVars, hndVars>>

\* a program exits by itself: a source whenever it likes, a filter once its
\* stdin has reached EOF.  Outside PTY mode it may print its one stderr chunk
\* on the way out; the stage's stderr writer appends that chunk to stderrBuf
\* and, when requested, to combinedBuf.
ChildExit(i, code, msg) ==
  /\ i \in 1..n /\ proc[i] = "running"
  /\ kind[i] = "filter" => (osIn[i] = <<>> /\ inClosed[i])
  /\ msg => (ptyMaster = "nil" /\ ~errWritten[i])
  /\ proc' = [proc EXCEPT ![i] = "exited"]
  /\ exitStatus' = [exitStatus EXCEPT ![i] = [code |-> code, sig |-> "nil"]]
  /\ osIn' = [osIn EXCEPT ![i] = <<>>]
  /\ errWritten' = [errWritten EXCEPT ![i] = @ \/ msg]
  /\ stderrBuf' = IF msg THEN [stderrBuf EXCEPT ![i] = Append(@, ErrOut(i))]
                         ELSE stderrBuf
  /\ combinedBuf' = IF msg /\ withCombined
                      THEN [combinedBuf EXCEPT ![i] = Append(@, ErrOut(i))]
                      ELSE combinedBuf
  /\ produced' = IF msg THEN [produced EXCEPT ![i] = Append(@, ErrOut(i))]
                         ELSE produced
  /\ UNCHANGED <<cfgVars, chainVars, logVars, osErr, inComb, ctx, ctlVars,
                 stageVars, stdoutBuf, cbVars, ptyVars,
                 waited, watchErr, kind, written, osOut, pending, inGo, inHold,
                 inClosed, outVars, hndVars>>

(* ------------------ copy goroutines of os/exec and PTY ----------------- *)
\* a stage with a pipe writing to the pipe in place of its capture buffer
captureUnlessPiped(i, buf, c) == IF hasPipe(i) THEN buf ELSE Append(buf, c)

\* the stdout writer of stage i writing chunk c to the stage's capture
\* buffer buf, with or without a pipe after it in the io.MultiWriter
capture(i, buf, c) == Append(buf, c)

\* stdout copy goroutine of stage i: one Write through the stage's stdout
\* fan-out (capture buffer, combined buffer, then the io.PipeWriter, where it
\* blocks until the chunk is read)
StdoutCopy(i) ==
  /\ i \in 1..n /\ osOut[i] # <<>> /\ pending[i] = None
  /\ LET c == Head(osOut[i]) IN
       /\ osOut' = [osOut EXCEPT ![i] = Tail(@)]
       /\ stdoutBuf' = [stdoutBuf EXCEPT ![i] = capture(i, @, c)]
       /\ combinedBuf' = IF withCombined
                           THEN [combinedBuf EXCEPT ![i] = Append(@, c)]
                           ELSE combinedBuf
       /\ pending' = [pending EXCEPT ![i] = IF hasPipe(i) THEN c ELSE None]
  /\ UNCHANGED <<cfgVars, auxVars, ctx, ctlVars, stageVars, stderrBuf, cbVars, ptyVars,
                 osVars, inGo, inHold, osIn, inClosed, outVars, hndVars>>

\* stdin copy goroutine of stage i: Read on the io.PipeReader completes the
\* upstream Write
StdinRead(i) ==
  /\ i \in 2..n /\ inGo[i] = "run" /\ inHold[i] = None
  /\ pending[i - 1] # None
  /\ inHold' = [inHold EXCEPT ![i] = pending[i - 1]]
  /\ pending' = [pending EXCEPT ![i - 1] = None]
  /\ fed' = [fed EXCEPT ![i] = Append(@, pending[i - 1])]
  /\ UNCHANGED <<cfgVars, chainVars, events, opens, combVars, ctx, ctlVars, stageVars, bufVars, ptyVars, osVars,
                 osOut, inGo, osIn, inClosed, outVars, hndVars>>

\* stdin copy goroutine of stage i: Write to the child's stdin; when the child
\* has exited the Write fails with EPIPE, the copy ends and the goroutine
\* closes its end of the child's stdin
StdinWrite(i) ==
  /\ i \in 2..n /\ inGo[i] = "run" /\ inHold[i] # None
  /\ IF proc[i] = "exited"
       THEN /\ inGo' = [inGo EXCEPT ![i] = "done"]
            /\ inClosed' = [inClosed EXCEPT ![i] = TRUE]
            /\ UNCHANGED osIn
       ELSE /\ Room(osIn[i])
            /\ osIn' = [osIn EXCEPT ![i] = Append(@, inHold[i])]
            /\ UNCHANGED <<inGo, inClosed>>
  /\ inHold' = [inHold EXCEPT ![i] = None]
  /\ UNCHANGED <<cfgVars, auxVars, ctx, ctlVars, stageVars, bufVars, ptyVars, osVars,
                 osOut, pending, outVars, hndVars>>

\* stdin copy goroutine of stage i: EOF from the closed io.PipeWriter; the
\* goroutine closes the child's stdin and ends
StdinEOF(i) ==
  /\ i \in 2..n /\ inGo[i] = "run" /\ inHold[i] = None
  /\ pwClosed[i - 1]
  /\ inGo' = [inGo EXCEPT ![i] = "done"]
  /\ inClosed' = [inClosed EXCEPT ![i] = TRUE]
  /\ UNCHANGED <<cfgVars, auxVars, ctx, ctlVars, stageVars, bufVars, ptyVars, osVars,
                 osOut, pending, inHold, osIn, outVars, hndVars>>

\* a chunk ends its line with a newline; the first chunk a program prints
\* to stdout is the beginning of a line that its next chunk goes on with
HasNL(c) == c[Len(c)] # 1

\* a callback called with a line, when it is registered
deliver(cb, line) == IF cb.set THEN [cb EXCEPT !.lines = Append(@, line)] ELSE cb

\* ptyLineWriter.Write calling the stdout callback only
ptyLineWriteStdoutOnly(c) ==
  IF HasNL(c)
    THEN [buf |-> <<>>, out |-> deliver(onStdout, Append(lineBuf, c)),
          err |-> onStderr]
    ELSE [buf |-> Append(lineBuf, c), out |-> onStdout, err |-> onStderr]

\* ptyLineWriter.Write of chunk c: what is buffered and what the callbacks
\* have received afterwards; a completed line goes to both callbacks
ptyLineWrite(c) ==
  IF HasNL(c)
    THEN [buf |-> <<>>, out |-> deliver(onStdout, Append(lineBuf, c)),
          err |-> deliver(onStderr, Append(lineBuf, c))]
    ELSE [buf |-> Append(lineBuf, c), out |-> onStdout, err |-> onStderr]

\* PTY drain goroutine: io.Copy moves one chunk from the master to ptyWriter
\* (capture buffer, combined buffer, then the line writer)
PtyCopy ==
  /\ ptyDone = "empty" /\ ptyBuf # <<>>
  /\ ptyBuf' = Tail(ptyBuf)
  /\ stdoutBuf' = [stdoutBuf EXCEPT ![1] = Append(@, Head(ptyBuf))]
  /\ combinedBuf' = IF withCombined
                      THEN [combinedBuf EXCEPT ![1] = Append(@, Head(ptyBuf))]
                      ELSE combinedBuf
  /\ IF onStdout.set \/ onStderr.set
       THEN /\ lineBuf' = ptyLineWrite(Head(ptyBuf)).buf
            /\ onStdout' = ptyLineWrite(Head(ptyBuf)).out
            /\ onStderr' = ptyLineWrite(Head(ptyBuf)).err
       ELSE UNCHANGED cbVars
  /\ UNCHANGED <<cfgVars, auxVars, ctx, ctlVars, stageVars, stderrBuf, ptyMaster,
                 ptySlave, ptyDone, closes, osVars, pipeVars, outVars, hndVars>>

\* PTY drain goroutine: io.Copy returns once the slave side is gone and the
\* master is drained (EOF on some platforms, an I/O error on others); the
\* outcome is sent on ptyDone
PtyEnd(failed) ==
  /\ ptyDone = "empty" /\ ptyBuf = <<>> /\ proc[1] = "exited"
  /\ ptyDone' = IF failed THEN "err" ELSE "ok"
  /\ UNCHANGED <<cfgVars, auxVars, ctx, ctlVars, stageVars, bufVars, ptyMaster, ptySlave,
                 ptyBuf, closes, osVars, pipeVars, outVars, hndVars>>

\* PTY drain goroutine: closes the master after the send
PtyCloseMaster ==
  /\ ptyDone \in {"ok", "err", "taken"} /\ ptyMaster = "open"
  /\ ptyMaster' = "closed"
  /\ closes' = [closes EXCEPT !.master = @ + 1]
  /\ UNCHANGED <<cfgVars, auxVars, ctx, ctlVars, stageVars, bufVars, ptySlave, ptyDone,
                 ptyBuf, osVars, pipeVars, outVars, hndVars>>

(* ------ the two copy goroutines of a stage with combined capture ------- *)
\* a program outside PTY mode writes its one stderr chunk while it runs
ChildWriteStderr(i) ==
  /\ i \in 1..n /\ proc[i] = "running" /\ ~errWritten[i]
  /\ ptyMaster = "nil" /\ Room(osErr[i])
  /\ errWritten' = [errWritten EXCEPT ![i] = TRUE]
  /\ osErr' = [osErr EXCEPT ![i] = Append(@, ErrOut(i))]
  /\ produced' = [produced EXCEPT ![i] = Append(@, ErrOut(i))]
  /\ UNCHANGED <<cfgVars, chainVars, logVars, inComb, ctx, ctlVars, stageVars,
                 bufVars, ptyVars, proc, exitStatus, waited, watchErr, kind,
                 written, pipeVars, outVars, hndVars>>

\* what bytes.Buffer.Write of chunk c leaves in buf.  The buffer has no lock:
\* a Write that ran together with a Write of the other goroutine is a data
\* race, after which the chunk may be in place, lost or damaged
bufferWrite(buf, c, raced) ==
  IF raced THEN {Append(buf, c), buf, Append(buf, <<0, 0>>)}
           ELSE {Append(buf, c)}

\* a goroutine enters combinedBuf.Write with chunk c on path p
enterWrite(w, p, c) ==
  IF p = "out" THEN [w EXCEPT !.out = c, !.raced = @ \/ w.err # None]
               ELSE [w EXCEPT !.err = c, !.raced = @ \/ w.out # None]

\* a goroutine leaves combinedBuf.Write on path p
leaveWrite(w, p) ==
  IF p = "out" THEN [w EXCEPT !.out = None, !.raced = @ /\ w.err # None]
               ELSE [w EXCEPT !.err = None, !.raced = @ /\ w.out # None]

\* stdout copy goroutine of stage i, combined capture requested: the Write of
\* the io.MultiWriter has filled stdoutBuf and is in combinedBuf.Write
OutWriteBegin(i) ==
  /\ i \in 1..n /\ withCombined
  /\ osOut[i] # <<>> /\ pending[i] = None /\ inComb[i].out = None
  /\ osOut' = [osOut EXCEPT ![i] = Tail(@)]
  /\ stdoutBuf' = [stdoutBuf EXCEPT ![i] = capture(i, @, Head(osOut[i]))]
  /\ inComb' = [inComb EXCEPT ![i] = enterWrite(@, "out", Head(osOut[i]))]
  /\ UNCHANGED <<cfgVars, chainVars, logVars, osErr, produced, ctx, ctlVars,
                 stageVars, stderrBuf, combinedBuf, cbVars, ptyVars, osVars,
                 pending, inGo, inHold, osIn, inClosed, outVars, hndVars>>

\* stdout copy goroutine of stage i: combinedBuf.Write returns and the chunk
\* goes on to the io.PipeWriter, if any
OutWriteEnd(i) ==
  /\ i \in 1..n /\ inComb[i].out # None
  /\ \E b \in bufferWrite(combinedBuf[i], inComb[i].out, inComb[i].raced) :
       combinedBuf' = [combinedBuf EXCEPT ![i] = b]
  /\ pending' = [pending EXCEPT ![i] = IF hasPipe(i) THEN inComb[i].out ELSE None]
  /\ inComb' = [inComb EXCEPT ![i] = leaveWrite(@, "out")]
  /\ UNCHANGED <<cfgVars, chainVars, logVars, osErr, produced, ctx, ctlVars,
                 stageVars, stdoutBuf, stderrBuf, cbVars, ptyVars, osVars,
                 osOut, inGo, inHold, osIn, inClosed, outVars, hndVars>>

\* stderr copy goroutine of stage i, combined capture requested: the Write of
\* the io.MultiWriter has filled stderrBuf and is in combinedBuf.Write
ErrWriteBegin(i) ==
  /\ i \in 1..n /\ withCombined
  /\ osErr[i] # <<>> /\ inComb[i].err = None
  /\ osErr' = [osErr EXCEPT ![i] = Tail(@)]
  /\ stderrBuf' = [stderrBuf EXCEPT ![i] = Append(@, Head(osErr[i]))]
  /\ inComb' = [inComb EXCEPT ![i] = enterWrite(@, "err", Head(osErr[i]))]
  /\ UNCHANGED <<cfgVars, chainVars, logVars, produced, ctx, ctlVars,
                 stageVars, stdoutBuf, combinedBuf, cbVars, ptyVars, osVars,
                 pipeVars, outVars, hndVars>>

\* stderr copy goroutine of stage i: combinedBuf.Write returns
ErrWriteEnd(i) ==
  /\ i \in 1..n /\ inComb[i].err # None
  /\ \E b \in bufferWrite(combinedBuf[i], inComb[i].err, inComb[i].raced) :
       combinedBuf' = [combinedBuf EXCEPT ![i] = b]
  /\ inComb' = [inComb EXCEPT ![i] = leaveWrite(@, "err")]
  /\ UNCHANGED <<cfgVars, chainVars, logVars, osErr, produced, ctx, ctlVars,
                 stageVars, stdoutBuf, stderrBuf, cbVars, ptyVars, osVars,
                 pipeVars, outVars, hndVars>>

(* ------------------------------ Next ----------------------------------- *)
Entries == {"Run", "CombinedOutput", "PipelineResults", "Start"}

Next ==
  \/ Pipe
  \/ PipeStrict
  \/ PipeBestEffort
  \/ WithPTY
  \/ \E i \in Stages : WithContext(i)
  \/ \E i \in Stages : CtxFire(i)
  \/ \E e \in Entries : Call(e)
  \/ StartStage
  \/ WaitStage
  \/ WaitDrain
  \/ CollectResults
  \/ Report
  \/ FinishStep
  \/ \E i \in Stages : ChildWrite(i)
  \/ \E i \in Stages : ChildFilter(i)
  \/ \E i \in Stages : ChildWriteErr(i)
  \/ \E i \in Stages, code \in ExitCodes, msg \in BOOLEAN : ChildExit(i, code, msg)
  \/ \E i \in Stages : StdoutCopy(i)
  \/ \E i \in Stages : StdinRead(i)
  \/ \E i \in Stages : StdinWrite(i)
  \/ \E i \in Stages : StdinEOF(i)
  \/ PtyCopy
  \/ \E failed \in BOOLEAN : PtyEnd(failed)
  \/ PtyCloseMaster

Spec == Init /\ [][Next]_vars

(* ------------- the reduction alone, over bounded result lists ---------- *)
MaxResults == 3       \* longest result list handed to the reduction

\* what one stage can report: a clean or failing exit, a cancellation, a
\* cancellation noticed on a clean or on a failing exit, or a failed start
Outcomes ==
  { [ExitCode |-> 0,  Err |-> NilErr, signal |-> "nil"],
    [ExitCode |-> 2,  Err |-> NilErr, signal |-> "nil"],
    [ExitCode |-> -1, Err |-> CtxErr, signal |-> "killed"],
    [ExitCode |-> -1, Err |-> DeadlineErr, signal |-> "killed"],
    [ExitCode |-> 0,  Err |-> CtxErr, signal |-> "nil"],
    [ExitCode |-> 2,  Err |-> CtxErr, signal |-> "nil"],
    [ExitCode |-> -1, Err |-> ErrExec("notfound"), signal |-> "nil"] }

\* the Results stage i can report; a program that exits with a nonzero code
\* has printed its stderr chunk
StageResults(i) ==
  { [Stdout |-> so,
     Stderr |-> IF o.ExitCode = 2 THEN <<ErrOut(i)>> ELSE <<>>,
     ExitCode |-> o.ExitCode, Err |-> o.Err, signal |-> o.signal] :
      o \in Outcomes, so \in {<<>>, <<Out(i, 1)>>} }

NeverStarted(r) == r.Err.kind = "ErrExec"

\* what stage i can report after the list rs of its upstream stages: a stage
\* that never started has captured nothing, and every stage after it carries
\* the same start error
Producible(rs, r) ==
  /\ NeverStarted(r) => r.Stdout = <<>> /\ r.Stderr = <<>>
  /\ (rs # <<>> /\ NeverStarted(rs[Len(rs)])) => NeverStarted(r)

\* the result lists of length len that pipeline.results can produce
RECURSIVE ResultLists(_)
ResultLists(len) ==
  IF len = 0 THEN {<<>>}
  ELSE UNION { {Append(rs, r) : r \in {x \in StageResults(len) : Producible(rs, x)}} :
               rs \in ResultLists(len - 1) }

ReduceInit ==
  /\ \E len \in 1..MaxResults : n = len /\ results \in ResultLists(len)
  /\ pipeMode \in {pipeStrict, pipeBestEffort}
  /\ entry \in {"Run", "Start"}
  /\ pc = "report"
  /\ InitRest

ReduceNext ==
  \/ Report
  \/ FinishStep

ReduceSpec == ReduceInit /\ [][ReduceNext]_vars

(* ---------------- the Process handle and its callers ------------------- *)
MaxCalls == 1         \* Send / Terminate / GracefulShutdown calls on one handle
MaxWaits == 2         \* Wait calls on one handle
MaxArms == 1          \* KillAfter calls on one handle
MaxFinish == 2        \* Process.finish calls on one handle
MaxReArms == 2        \* KillAfter calls on one handle that is re-armed
MaxTime == 3          \* time units the clock runs after Start returned
MaxDuration == 2      \* longest duration handed to KillAfter

Signals == {"term", "int"}      \* signals a caller asks for; "kill" is Kill
LateResults == {ZeroResult, ErrResult(CtxErr)}

\* stage.cmd.Process # nil: the stage was spawned
spawned(i) == proc[i] # "none"

\* os.Process.Signal / Kill on a reaped process ignoring that it is finished
sendErrIgnoreDone(i) == "nil"

\* os.Process.Signal / Kill: a process already reaped by Wait gives
\* os.ErrProcessDone, any other process takes the signal
sendErr(i) == IF waited[i] THEN "finished" ELSE "nil"

\* the terminating signal a process killed by sig reports
sigName(sig) == IF sig = "kill" THEN "killed" ELSE sig

\* signalAll: firstErr after a send returned err
firstErrAfter(firstErr, err) ==
  IF err # "nil" /\ firstErr = "nil" THEN err ELSE firstErr

\* signalAll: its return value
signalAllRet(count, firstErr) ==
  IF count = 0 /\ firstErr = "nil" THEN "notstarted" ELSE firstErr

\* signalAll giving up at the first delivery error
stopOnError(i, err) == IF err # "nil" THEN n + 1 ELSE i + 1

\* signalAll: the stage visited after stage i, whatever the send returned
nextStage(i, err) == i + 1

\* GracefulShutdown sending the caller's signal whatever the timeout
gracefulSignalAsked(sig, positive) == sig

\* GracefulShutdown: what it sends first, the caller's signal with a timeout
\* > 0 and Terminate's kill otherwise
gracefulSignal(sig, positive) == IF positive THEN sig ELSE "kill"

\* GracefulShutdown escalating without looking at done or the timer
selectAlwaysTimeout(elapsed) == {"timeout"}

\* GracefulShutdown: the cases of its select that are ready
selectReady(elapsed) ==
  {b \in {"done"} : done} \cup {b \in {"timeout"} : elapsed}

\* Process.finish storing the result without asking resultOnce
finishNoGate(r) == r

\* Process.finish under resultOnce: the Result the handle holds after a call
\* with Result r
finishOnce(r) == IF resultOnce THEN procResult ELSE r

\* the signal sig reaching stage i's process: a running process dies of a
\* kill; of another signal it dies or, with a handler installed, lives on
deliverTo(i, sig, dies) ==
  IF proc[i] = "running" /\ dies
    THEN /\ proc' = [proc EXCEPT ![i] = "exited"]
         /\ exitStatus' = [exitStatus EXCEPT
                             ![i] = [code |-> -1, sig |-> sigName(sig)]]
         /\ osIn' = [osIn EXCEPT ![i] = <<>>]
    ELSE UNCHANGED <<proc, exitStatus, osIn>>

\* one send of signalAll, as the handle's caller records it
trial(i, sig) ==
  [stage |-> i, sig |-> sig, err |-> sendErr(i), whenDone |-> done]

\* the return of a handle operation to its caller
Return(c, err, branch) ==
  /\ call' = NoCall
  /\ returned' = [name |-> c.name, asked |-> c.asked, positive |-> c.positive,
                  err |-> err, branch |-> branch, late |-> c.late,
                  wasDone |-> done, tried |-> c.tried]

\* GracefulShutdown returning nil when its first Send failed
afterSendNilErr(err) ==
  IF err # "nil" THEN [next |-> "return", err |-> "nil"]
                 ELSE [next |-> "select", err |-> "nil"]

\* GracefulShutdown going on to its select whatever its first Send returned
afterSendNoCheck(err) == [next |-> "select", err |-> "nil"]

\* GracefulShutdown with timeout > 0 after p.Send(sig) returned err: return
\* the error when it is non-nil, else go on to the select
afterSend(err) ==
  IF err # "nil" THEN [next |-> "return", err |-> err]
                 ELSE [next |-> "select", err |-> "nil"]

\* the first signalAll of the operation c has returned err
SendDone(c, err) ==
  IF c.name = "GracefulShutdown" /\ c.positive
    THEN IF afterSend(err).next = "select"
           THEN call' = [c EXCEPT !.phase = "select"] /\ UNCHANGED returned
           ELSE Return(c, afterSend(err).err, "none")
    ELSE Return(c, err, "none")

\* entering Send, Terminate or GracefulShutdown: signalAll's nil-pipeline
\* check, else the start of its loop
Begin(name, asked, positive, sig) ==
  /\ handle /\ call.name = "none" /\ calls < MaxCalls
  /\ calls' = calls + 1
  /\ LET c == [NoCall EXCEPT !.name = name, !.asked = asked,
                             !.positive = positive, !.sig = sig,
                             !.phase = "signal", !.i = 1,
                             !.late = (waits # <<>>)]
     IN IF procPipeline THEN call' = c /\ UNCHANGED returned
                        ELSE SendDone(c, "notstarted")
  /\ UNCHANGED <<cfgVars, auxVars, ctx, ctlVars, stageVars, bufVars, ptyVars, osVars,
                 pipeVars, outVars, resultOnce, finishCalls, procPipeline,
                 tmrVars, waits>>

\* Process.Send
Send(sig) == Begin("Send", sig, FALSE, sig)

\* Process.Interrupt
Interrupt == Begin("Send", "int", FALSE, "int")

\* Process.Terminate
Terminate == Begin("Terminate", "kill", FALSE, "kill")

\* Process.GracefulShutdown(sig, timeout), positive meaning timeout > 0
GracefulShutdown(sig, positive) ==
  Begin("GracefulShutdown", sig, positive, gracefulSignal(sig, positive))

\* signalAll has left its loop
LoopEnd(c) ==
  LET err == signalAllRet(c.count, c.firstErr)
  IN IF c.phase = "escalate"
       THEN call' = [c EXCEPT !.phase = "block"] /\ UNCHANGED returned
       ELSE SendDone(c, err)

\* one iteration of the loop of signalAll run by the handle's caller
SignalStage ==
  /\ call.phase \in {"signal", "escalate"}
  /\ LET i == call.i IN
     IF ~spawned(i)
       THEN /\ UNCHANGED <<proc, exitStatus, osIn>>
            /\ LET c == [call EXCEPT !.i = i + 1]
               IN IF c.i <= n THEN call' = c /\ UNCHANGED returned
                              ELSE LoopEnd(c)
       ELSE \E dies \in BOOLEAN :
            /\ (call.sig = "kill" \/ proc[i] # "running") => dies
            /\ deliverTo(i, call.sig, dies)
            /\ LET c == [call EXCEPT
                           !.i = nextStage(i, sendErr(i)),
                           !.count = @ + 1,
                           !.firstErr = firstErrAfter(@, sendErr(i)),
                           !.tried = @ \cup {trial(i, call.sig)}]
               IN IF c.i <= n THEN call' = c /\ UNCHANGED returned
                              ELSE LoopEnd(c)
  /\ UNCHANGED <<cfgVars, auxVars, ctx, ctlVars, stageVars, bufVars, ptyVars, waited,
                 watchErr, kind, written, errWritten, osOut, pending, inGo,
                 inHold, inClosed, outVars, resultOnce, finishCalls,
                 procPipeline, calls, tmrVars, waits>>

\* GracefulShutdown: the timer of time.After(timeout) fires
GsTimeout ==
  /\ call.phase = "select" /\ ~call.elapsed
  /\ call' = [call EXCEPT !.elapsed = TRUE]
  /\ UNCHANGED <<cfgVars, auxVars, ctx, ctlVars, stageVars, bufVars, ptyVars, osVars,
                 pipeVars, outVars, resultOnce, finishCalls, procPipeline,
                 returned, calls, tmrVars, waits>>

\* GracefulShutdown: its select takes a ready case: done returns nil, the
\* timeout goes on to Terminate
GsSelect ==
  /\ call.phase = "select"
  /\ \E b \in selectReady(call.elapsed) :
       IF b = "done"
         THEN Return(call, "nil", "done")
         ELSE /\ call' = [call EXCEPT !.phase = "escalate", !.sig = "kill",
                                      !.i = 1, !.count = 0, !.firstErr = "nil"]
              /\ UNCHANGED returned
  /\ UNCHANGED <<cfgVars, auxVars, ctx, ctlVars, stageVars, bufVars, ptyVars, osVars,
                 pipeVars, outVars, resultOnce, finishCalls, procPipeline,
                 calls, tmrVars, waits>>

\* GracefulShutdown: the receive from done after the escalation
GsBlock ==
  /\ call.phase = "block" /\ done
  /\ Return(call, "nil", "timeout")
  /\ UNCHANGED <<cfgVars, auxVars, ctx, ctlVars, stageVars, bufVars, ptyVars, osVars,
                 pipeVars, outVars, resultOnce, finishCalls, procPipeline,
                 calls, tmrVars, waits>>

\* time.Timer.Stop leaving the timer pending
stopTimerNoop(t) == t

\* time.Timer.Stop: a timer that has not fired yet never fires; one that has
\* fired keeps running its function
stopTimer(t) == IF t.state = "armed" THEN [t EXCEPT !.state = "stopped"] ELSE t

\* the timers time.AfterFunc has created: 0 is the one Process.killTimer
\* points to, k > 0 the k-th one that was replaced
Timers == 0..Len(oldTimers)
timerAt(k) == IF k = 0 THEN killTimer ELSE oldTimers[k]
setTimer(k, t) ==
  IF k = 0 THEN killTimer' = t /\ UNCHANGED oldTimers
           ELSE oldTimers' = [oldTimers EXCEPT ![k] = t] /\ UNCHANGED killTimer

\* Process.KillAfter(d) under p.mu: stop the timer killTimer points to, then
\* point killTimer to a new timer due after d
armTimer(d, max) ==
  /\ handle /\ killTimer.arms < max /\ now + d <= MaxTime
  /\ oldTimers' = IF killTimer.state = "nil" THEN oldTimers
                   ELSE Append(oldTimers, stopTimer(killTimer))
  /\ armedLate' = (armedLate \/ killTimer.state \in {"firing", "fired"})
  /\ killTimer' = [state |-> "armed", i |-> 0, arms |-> killTimer.arms + 1,
                   due |-> now + d, firedAt |-> 0]
  /\ UNCHANGED <<cfgVars, auxVars, ctx, ctlVars, stageVars, bufVars, ptyVars, osVars,
                 pipeVars, outVars, resultOnce, finishCalls, procPipeline,
                 call, returned, calls, now, waits>>

\* Process.KillAfter with a duration that has elapsed by the time the runtime
\* looks at the timer
KillAfter == armTimer(0, MaxArms)

\* Process.KillAfter(d), called again and again on one handle
KillAfterIn(d) == armTimer(d, MaxReArms)

\* time passes
Tick ==
  /\ handle /\ now < MaxTime
  /\ now' = now + 1
  /\ UNCHANGED <<cfgVars, auxVars, ctx, ctlVars, stageVars, bufVars, ptyVars, osVars,
                 pipeVars, outVars, resultOnce, finishCalls, procPipeline,
                 call, returned, calls, killTimer, oldTimers, armedLate, waits>>

\* a kill timer that is due fires: its goroutine enters Terminate
TimerFire ==
  /\ \E k \in Timers :
       LET t == timerAt(k) IN
       /\ t.state = "armed" /\ now >= t.due
       /\ setTimer(k, IF procPipeline
                        THEN [t EXCEPT !.state = "firing", !.i = 1, !.firedAt = now]
                        ELSE [t EXCEPT !.state = "fired", !.firedAt = now])
  /\ UNCHANGED <<cfgVars, auxVars, ctx, ctlVars, stageVars, bufVars, ptyVars, osVars,
                 pipeVars, outVars, resultOnce, finishCalls, procPipeline,
                 call, returned, calls, now, armedLate, waits>>

\* one iteration of the loop of signalAll run by a kill timer's Terminate
TimerSignal ==
  /\ \E k \in Timers :
       LET t == timerAt(k) IN
       /\ t.state = "firing"
       /\ IF spawned(t.i) THEN deliverTo(t.i, "kill", TRUE)
                          ELSE UNCHANGED <<proc, exitStatus, osIn>>
       /\ setTimer(k, IF t.i < n THEN [t EXCEPT !.i = t.i + 1]
                                 ELSE [t EXCEPT !.state = "fired"])
  /\ UNCHANGED <<cfgVars, auxVars, ctx, ctlVars, stageVars, bufVars, ptyVars, waited,
                 watchErr, kind, written, errWritten, osOut, pending, inGo,
                 inHold, inClosed, outVars, resultOnce, finishCalls,
                 procPipeline, call, returned, calls, now, armedLate, waits>>

\* Process.Wait returning: done is closed, the stored Result is read
Wait ==
  /\ handle /\ done /\ Len(waits) < MaxWaits
  /\ waits' = Append(waits, [result |-> procResult, err |-> procResult.Err])
  /\ UNCHANGED <<cfgVars, auxVars, ctx, ctlVars, stageVars, bufVars, ptyVars, osVars,
                 pipeVars, outVars, resultOnce, finishCalls, procPipeline,
                 call, returned, calls, tmrVars>>

\* a further call of Process.finish on a handle that has completed
FinishAgain(r) ==
  /\ handle /\ done /\ finishCalls < MaxFinish
  /\ finishCalls' = finishCalls + 1
  /\ procResult' = finishOnce(r)
  /\ UNCHANGED <<cfgVars, auxVars, ctx, ctlVars, stageVars, bufVars, ptyVars, osVars,
                 pipeVars, results, ret, done, resultOnce, procPipeline,
                 call, returned, calls, tmrVars, waits>>

\* Cmd.Start; a chain with PTY mode is started only when it is a pipeline,
\* where validatePTY turns it down
Start == (usePTY => n > 1) /\ Call("Start")

\* a strict chain started with Start whose programs print nothing, and the
\* operations of the handle's callers
HandleNext ==
  \/ Pipe
  \/ WithPTY
  \/ Start
  \/ StartStage
  \/ WaitStage
  \/ CollectResults
  \/ FinishStep
  \/ \E i \in Stages, code \in ExitCodes : ChildExit(i, code, FALSE)
  \/ \E i \in Stages : StdinEOF(i)
  \/ \E sig \in Signals : Send(sig)
  \/ Interrupt
  \/ Terminate
  \/ \E sig \in Signals, positive \in BOOLEAN : GracefulShutdown(sig, positive)
  \/ SignalStage
  \/ GsTimeout
  \/ GsSelect
  \/ GsBlock
  \/ KillAfter
  \/ TimerFire
  \/ TimerSignal
  \/ Wait
  \/ \E r \in LateResults : FinishAgain(r)

HandleSpec == Init /\ [][HandleNext]_vars

(* -------------------- one command on a pseudo-terminal ----------------- *)
\* Run / CombinedOutput of a single command in PTY mode
RunPTY(e) == usePTY /\ Call(e)

\* a single command in PTY mode with its line callbacks, run to its Result
PtyNext ==
  \/ WithPTY
  \/ OnStdout
  \/ OnStderr
  \/ \E e \in {"Run", "CombinedOutput"} : RunPTY(e)
  \/ StartStage
  \/ WaitStage
  \/ WaitDrain
  \/ CollectResults
  \/ Report
  \/ ChildWrite(1)
  \/ ChildWriteErr(1)
  \/ \E code \in ExitCodes : ChildExit(1, code, FALSE)
  \/ PtyCopy
  \/ \E failed \in BOOLEAN : PtyEnd(failed)
  \/ PtyCloseMaster

PtySpec == Init /\ [][PtyNext]_vars

(* ----------------------- re-arming KillAfter --------------------------- *)
Durations == 1..MaxDuration

\* a strict chain of quiet programs started with Start, the clock, and
\* KillAfter calls on the handle
TimerNext ==
  \/ Pipe
  \/ Start
  \/ StartStage
  \/ WaitStage
  \/ CollectResults
  \/ FinishStep
  \/ \E i \in Stages, code \in ExitCodes : ChildExit(i, code, FALSE)
  \/ \E i \in Stages : StdinEOF(i)
  \/ \E d \in Durations : KillAfterIn(d)
  \/ Tick
  \/ TimerFire
  \/ TimerSignal

\* time passes, a due timer fires and the goroutine of its function runs
TimerFair == WF_vars(Tick) /\ WF_vars(TimerFire) /\ WF_vars(TimerSignal)

TimerSpec == Init /\ [][TimerNext]_vars /\ TimerFair

(* ------------- GracefulShutdown on pipelines that print ---------------- *)
\* a strict chain started with Start whose programs print to stdout, with
\* one GracefulShutdown(sig, timeout > 0) by the handle's caller
ShutdownNext ==
  \/ Pipe
  \/ Start
  \/ StartStage
  \/ WaitStage
  \/ CollectResults
  \/ FinishStep
  \/ \E i \in Stages : ChildWrite(i)
  \/ \E i \in Stages : ChildFilter(i)
  \/ \E i \in Stages, code \in ExitCodes : ChildExit(i, code, FALSE)
  \/ \E i \in Stages : StdoutCopy(i)
  \/ \E i \in Stages : StdinRead(i)
  \/ \E i \in Stages : StdinWrite(i)
  \/ \E i \in Stages : StdinEOF(i)
  \/ \E sig \in Signals : GracefulShutdown(sig, TRUE)
  \/ SignalStage
  \/ GsTimeout
  \/ GsSelect
  \/ GsBlock

\* every goroutine of the library and of os/exec that can take a step takes
\* it, and the timer of time.After fires; the programs are free to print,
\* to exit by themselves or to do neither
ShutdownFair ==
  /\ WF_vars(StartStage) /\ WF_vars(WaitStage)
  /\ WF_vars(CollectResults) /\ WF_vars(FinishStep)
  /\ \A i \in Stages : /\ WF_vars(StdoutCopy(i)) /\ WF_vars(StdinRead(i))
                        /\ WF_vars(StdinWrite(i)) /\ WF_vars(StdinEOF(i))
  /\ WF_vars(SignalStage) /\ WF_vars(GsTimeout)
  /\ WF_vars(GsSelect) /\ WF_vars(GsBlock)

ShutdownSpec == Init /\ [][ShutdownNext]_vars /\ ShutdownFair

(* ------------- WithContext, WithTimeout and WithDeadline --------------- *)
MaxCtxs == 3          \* contexts created for one Cmd

TimerKinds == {"timeout", "deadline"}

\* ctx.Err() != nil: the context was cancelled or has expired, or its parent
RECURSIVE ctxErr(_, _)
ctxErr(cs, k) ==
  \/ cs[k].state # "live"
  \/ cs[k].parent # 0 /\ ctxErr(cs, cs[k].parent)

\* a builder call that drops c.cancel without calling it
dropCancel(cs, k) == cs

\* if c.cancel != nil { c.cancel() }: cancelling a context that is over
\* changes nothing
callCancel(cs, k) ==
  IF k # 0 /\ cs[k].state = "live" THEN [cs EXCEPT ![k].state = "cancelled"]
                                    ELSE cs

\* the parent WithTimeout / WithDeadline derive from: c.ctx, unless c.cancel
\* was set, or c.ctx is nil or over; 0 is context.Background()
timerParent(cs, cur, cancel) ==
  LET parent == IF cancel # 0 THEN 0 ELSE cur
  IN IF parent = 0 \/ ctxErr(cs, parent) THEN 0 ELSE parent

\* what the engine sees of c.ctx
ctxSeen(cs, cur) ==
  IF cur = 0 THEN "none" ELSE IF ctxErr(cs, cur) THEN "done" ELSE "live"

\* Cmd.WithContext(u) on the first Cmd: u is nil (0), a context passed
\* before, or a new context of the caller, which may be over already
WithContextTo(u) ==
  /\ pc = "idle"
  /\ \/ /\ u = 0 \/ (u \in 1..Len(ctxs) /\ ctxs[u].kind = "user")
        /\ ctxs' = callCancel(ctxs, cmdCancel)
     \/ /\ u = Len(ctxs) + 1 /\ Len(ctxs) < MaxCtxs
        /\ \E st \in {"live", "cancelled"} :
             ctxs' = Append(callCancel(ctxs, cmdCancel),
                            [kind |-> "user", parent |-> 0, state |-> st])
  /\ cmdCancel' = 0
  /\ cmdCtx' = u
  /\ ctx' = [ctx EXCEPT ![1] = ctxSeen(ctxs', cmdCtx')]
  /\ UNCHANGED <<cfgVars, recv, stageMode, lastMode, logVars, combVars,
                 ctlVars, stageVars, bufVars, ptyVars, osVars, pipeVars,
                 outVars, hndVars>>

\* Cmd.WithTimeout / Cmd.WithDeadline on the first Cmd
WithTimer(tk) ==
  /\ pc = "idle" /\ Len(ctxs) < MaxCtxs
  /\ LET cs == callCancel(ctxs, cmdCancel)
     IN ctxs' = Append(cs, [kind |-> tk,
                            parent |-> timerParent(cs, cmdCtx, cmdCancel),
                            state |-> "live"])
  /\ cmdCtx' = Len(ctxs) + 1
  /\ cmdCancel' = Len(ctxs) + 1
  /\ ctx' = [ctx EXCEPT ![1] = ctxSeen(ctxs', cmdCtx')]
  /\ UNCHANGED <<cfgVars, recv, stageMode, lastMode, logVars, combVars,
                 ctlVars, stageVars, bufVars, ptyVars, osVars, pipeVars,
                 outVars, hndVars>>

WithTimeout == WithTimer("timeout")
WithDeadline == WithTimer("deadline")

\* the caller cancels one of its contexts
CancelUser(k) ==
  /\ k \in 1..Len(ctxs) /\ ctxs[k].kind = "user" /\ ctxs[k].state = "live"
  /\ ctxs' = [ctxs EXCEPT ![k].state = "cancelled"]
  /\ ctx' = [ctx EXCEPT ![1] = ctxSeen(ctxs', cmdCtx)]
  /\ UNCHANGED <<cfgVars, recv, stageMode, lastMode, cmdCtx, cmdCancel,
                 logVars, combVars, ctlVars, stageVars, bufVars, ptyVars,
                 osVars, pipeVars, outVars, hndVars>>

\* the timer of a timeout or deadline context fires
Expire(k) ==
  /\ k \in 1..Len(ctxs) /\ ctxs[k].kind \in TimerKinds /\ ~ctxErr(ctxs, k)
  /\ ctxs' = [ctxs EXCEPT ![k].state = "expired"]
  /\ ctx' = [ctx EXCEPT ![1] = ctxSeen(ctxs', cmdCtx)]
  /\ UNCHANGED <<cfgVars, recv, stageMode, lastMode, cmdCtx, cmdCancel,
                 logVars, combVars, ctlVars, stageVars, bufVars, ptyVars,
                 osVars, pipeVars, outVars, hndVars>>

\* one Cmd, the context calls of its builder, and the contexts' own ends
CtxNext ==
  \/ \E u \in 0..MaxCtxs : WithContextTo(u)
  \/ WithTimeout
  \/ WithDeadline
  \/ \E k \in 1..MaxCtxs : CancelUser(k)
  \/ \E k \in 1..MaxCtxs : Expire(k)

CtxSpec == Init /\ [][CtxNext]_vars

(* ------------------- the line adapter, byte by byte -------------------- *)
MaxWrites == 3        \* Write calls the line adapter receives
MaxWriteLen == 2      \* bytes of one Write at most

LF == 10
CR == 13
Bytes == {97, CR, LF}

\* strings.TrimSuffix(line, "\r")
trimSuffixCR(line) ==
  IF line # <<>> /\ line[Len(line)] = CR THEN SubSeq(line, 1, Len(line) - 1)
                                          ELSE line

\* the loop of lineWriter.Write from byte k of p on: [buf, lines], the
\* buffer afterwards and the lines handed to the callback
RECURSIVE lineWriteFrom(_, _, _, _)
lineWriteFrom(buf, p, k, lines) ==
  IF k > Len(p) THEN [buf |-> buf, lines |-> lines]
  ELSE IF p[k] = LF
         THEN lineWriteFrom(<<>>, p, k + 1, Append(lines, trimSuffixCR(buf)))
         ELSE lineWriteFrom(Append(buf, p[k]), p, k + 1, lines)

\* a line adapter that starts every Write with an empty buffer
lineWritePerWrite(buf, p) == lineWriteFrom(<<>>, p, 1, <<>>)

\* lineWriter.Write(p) with l.buf = buf
lineWrite(buf, p) == lineWriteFrom(buf, p, 1, <<>>)

\* the byte strings of length len
RECURSIVE ByteSeqs(_)
ByteSeqs(len) ==
  IF len = 0 THEN {<<>>}
  ELSE {Append(p, b) : p \in ByteSeqs(len - 1), b \in Bytes}

\* the sequences of k Writes
RECURSIVE WriteSeqs(_)
WriteSeqs(k) ==
  IF k = 0 THEN {<<>>}
  ELSE {Append(ws, p) : ws \in WriteSeqs(k - 1),
                        p \in UNION {ByteSeqs(len) : len \in 0..MaxWriteLen}}

\* a stdout writer with a line callback, about to receive some sequence of
\* Writes
LineInit ==
  /\ n = 1 /\ pipeMode = pipeStrict
  /\ entry = "none" /\ pc = "idle"
  /\ results = <<>>
  /\ InitBase
  /\ onStdout = [set |-> TRUE, lines |-> <<>>]
  /\ \E k \in 0..MaxWrites, ws \in WriteSeqs(MaxWrites) :
       osOut = [i \in Stages |-> IF i = 1 THEN SubSeq(ws, 1, k) ELSE <<>>]

\* one Write of the stdout writer io.MultiWriter(buf, lineWriter): the bytes
\* go to the capture buffer and through lineWriter.Write
LineWrite ==
  /\ osOut[1] # <<>> /\ onStdout.set
  /\ LET p == Head(osOut[1])
         r == lineWrite(lineBuf, p)
     IN /\ lineBuf' = r.buf
        /\ onStdout' = [onStdout EXCEPT !.lines = @ \o r.lines]
        /\ stdoutBuf' = [stdoutBuf EXCEPT ![1] = Append(@, p)]
        /\ osOut' = [osOut EXCEPT ![1] = Tail(@)]
  /\ UNCHANGED <<cfgVars, auxVars, ctx, ctlVars, stageVars, stderrBuf,
                 combinedBuf, onStderr, ptyVars, osVars, pending, inGo, inHold,
                 osIn, inClosed, outVars, hndVars>>

LineSpec == LineInit /\ [][LineWrite]_vars

(* ---------------- CombinedOutput of programs that print ---------------- *)
\* CombinedOutput of one command whose program prints to stdout and to
\* stderr, each stream copied by its own goroutine of os/exec
CombinedNext ==
  \/ Call("CombinedOutput")
  \/ StartStage
  \/ WaitStage
  \/ CollectResults
  \/ Report
  \/ ChildWrite(1)
  \/ ChildWriteStderr(1)
  \/ \E code \in ExitCodes : ChildExit(1, code, FALSE)
  \/ OutWriteBegin(1)
  \/ OutWriteEnd(1)
  \/ ErrWriteBegin(1)
  \/ ErrWriteEnd(1)

CombinedSpec == Init /\ [][CombinedNext]_vars

(* ------------- chains built and executed from any of their Cmds -------- *)
\* chains of quiet programs: Pipe, PipeStrict and PipeBestEffort called on
\* any Cmd of the chain, contexts, and an entry point called on any Cmd
ChainNext ==
  \/ Pipe
  \/ PipeStrict
  \/ PipeBestEffort
  \/ \E i \in Stages : WithContext(i)
  \/ \E i \in Stages : CtxFire(i)
  \/ \E e \in Entries, r \in Stages : CallOn(e, r)
  \/ StartStage
  \/ WaitStage
  \/ CollectResults
  \/ Report
  \/ FinishStep
  \/ \E i \in Stages, code \in ExitCodes : ChildExit(i, code, FALSE)
  \/ \E i \in Stages : StdinEOF(i)

ChainSpec == Init /\ [][ChainNext]_vars

(* ======================================================================= *)
(*                               properties                                *)
(* ======================================================================= *)
Failed(r)    == r.ExitCode # 0 \/ r.Err # NilErr
Min(S)       == CHOOSE x \in S : \A y \in S : x <= y
FailedStages == {i \in 1..Len(results) : Failed(results[i])}
ErrStages    == {i \in 1..Len(results) : results[i].Err # NilErr}
StartFailed  == {i \in 1..n : startErr[i] # "nil"}
\* what Run returned, or what Process.Wait yields once the handle is done
Reported     == IF entry = "Start" THEN procResult ELSE ret.result
ReportedErr  == IF entry = "Start" THEN procResult.Err ELSE ret.err
Executed     == pc = "done" /\ results # <<>>

\* C1: in strict mode the reported Result is the Result of the lowest-indexed
\* stage with a nonzero ExitCode or a non-nil Err, and the last stage's Result
\* when no stage qualifies.
C1_StrictReduction ==
  (Executed /\ pipeMode = pipeStrict) =>
     Reported = IF FailedStages = {} THEN results[Len(results)]
                ELSE results[Min(FailedStages)]

C1_Witness ==
  /\ Executed /\ pipeMode = pipeStrict /\ entry = "Run" /\ Len(results) = 3
  /\ ~Failed(results[1]) /\ Failed(results[2]) /\ Failed(results[3])
  /\ results[2] # results[3]

\* C2: in best-effort mode the reported Result has the last stage's Stdout,
\* Stderr and ExitCode; its Err is the last stage's own Err when non-nil, else
\* the Err of the lowest-indexed stage with a non-nil Err, else nil.
C2_BestEffortReduction ==
  (Executed /\ pipeMode = pipeBestEffort) =>
     LET last == results[Len(results)]
     IN /\ Reported.Stdout = last.Stdout
        /\ Reported.Stderr = last.Stderr
        /\ Reported.ExitCode = last.ExitCode
        /\ Reported.Err = IF last.Err # NilErr THEN last.Err
                          ELSE IF ErrStages = {} THEN NilErr
                          ELSE results[Min(ErrStages)].Err

C2_Witness ==
  /\ Executed /\ pipeMode = pipeBestEffort /\ entry = "Run" /\ Len(results) = 3
  /\ results[1].Err = DeadlineErr /\ results[2].Err = CtxErr
  /\ results[3].Err = NilErr /\ results[3].Stdout # results[1].Stdout

\* the case of C3: a two-stage best-effort Run where stage 1 exited by itself
\* with a nonzero code, stage 2 exited zero having printed its one chunk, and
\* no context has fired
C3_Case ==
  /\ pc = "done" /\ entry = "Run" /\ n = 2 /\ pipeMode = pipeBestEffort
  /\ startErr[1] = "nil" /\ startErr[2] = "nil"
  /\ exitStatus[1].code # 0 /\ exitStatus[1].sig = "nil"
  /\ exitStatus[2] = [code |-> 0, sig |-> "nil"]
  /\ stdoutBuf[2] = <<Out(2, 1)>>
  /\ ctx[1] # "done" /\ ctx[2] # "done"

\* C3 as stated: in that case Run returns Stdout "ok", ExitCode 0 and a
\* non-nil error for stage 1's failure.
C3_Original ==
  C3_Case => /\ ret.result.Stdout = <<Out(2, 1)>>
             /\ ret.result.ExitCode = 0
             /\ ret.err # NilErr

\* C3 amended: in that case Run returns Stdout "ok", ExitCode 0 and a nil
\* error; stage 1's nonzero exit alone is not an error.
C3_BestEffortExitOnly ==
  C3_Case => /\ ret.result.Stdout = <<Out(2, 1)>>
             /\ ret.result.ExitCode = 0
             /\ ret.err = NilErr /\ ret.result.Err = NilErr

C3_Witness == C3_Case /\ results[1].ExitCode = 2

\* C4: a single-stage command whose process exits by itself with code k gives
\* ExitCode k, Err nil and a nil error from Run, whatever context is bound.
C4_ExitCodeIsNotAnError ==
  (pc = "done" /\ entry = "Run" /\ n = 1 /\ startErr[1] = "nil" /\ waited[1]
     /\ exitStatus[1].sig = "nil")
  => /\ ret.result.ExitCode = exitStatus[1].code
     /\ ret.result.Err = NilErr
     /\ ret.err = NilErr

\* C5: in strict mode the error Run returns is the selected primary stage's
\* own Err: not made up from a nonzero exit code, not copied from another
\* stage.
C5_StrictErrIsPrimaryOwn ==
  (Executed /\ entry = "Run" /\ pipeMode = pipeStrict) =>
     LET p == IF FailedStages = {} THEN Len(results) ELSE Min(FailedStages)
     IN /\ ret.err = results[p].Err
        /\ ret.result.Err = results[p].Err
        /\ (waitErr[p] = "exit" /\ ctx[p] # "done") => ret.err = NilErr

C5_Witness ==
  /\ Executed /\ entry = "Run" /\ pipeMode = pipeStrict /\ n = 2
  /\ results[1].ExitCode = 2 /\ results[1].Err = NilErr
  /\ results[2].Err # NilErr
  /\ ret.err = NilErr

\* C6 as stated: in both modes, if any stage's Result carries a non-nil Err,
\* Run, CombinedOutput and Process.Wait return a non-nil error.
C6_Original ==
  (Executed /\ entry \in {"Run", "CombinedOutput", "Start"} /\ ErrStages # {})
  => ReportedErr # NilErr

\* C6 amended: that holds in best-effort mode, and in strict mode when every
\* stage before the first one with a non-nil Err exited with code 0.
C6_ErrorsSurfaced ==
  (Executed /\ entry \in {"Run", "CombinedOutput", "Start"} /\ ErrStages # {}
     /\ (pipeMode = pipeBestEffort
           \/ \A j \in 1..(Min(ErrStages) - 1) : results[j].ExitCode = 0))
  => ReportedErr # NilErr

C6_Witness ==
  /\ Executed /\ entry = "Run" /\ pipeMode = pipeBestEffort /\ n = 2
  /\ results[1].Err # NilErr /\ results[2].Err = NilErr
  /\ results[2].ExitCode = 0
  /\ ret.err # NilErr

\* C7 as stated: if any stage names a nonexistent binary, Run returns
\* ExitCode -1 and an ErrExec wrapping the spawn failure, at any position, in
\* either mode, whatever the other stages do.
C7_Original ==
  (Executed /\ entry = "Run" /\ \E i \in 1..n : startErr[i] = "notfound")
  => /\ ret.result.ExitCode = -1
     /\ ret.err = ErrExec("notfound")

\* C7 amended: that holds in best-effort mode, and in strict mode when no
\* stage before the first one that failed to start has a nonzero ExitCode or
\* a non-nil Err.
C7_MissingBinary ==
  (Executed /\ entry = "Run" /\ (\E i \in 1..n : startErr[i] = "notfound")
     /\ (pipeMode = pipeBestEffort
           \/ \A j \in 1..(Min(StartFailed) - 1) : ~Failed(results[j])))
  => /\ ret.result.ExitCode = -1
     /\ ret.err = ErrExec("notfound")
     /\ ret.result.Err = ret.err

C7_Witness ==
  /\ Executed /\ entry = "Run" /\ pipeMode = pipeStrict /\ n = 2
  /\ startErr[1] = "nil" /\ startErr[2] = "notfound"
  /\ ~Failed(results[1])

\* C8: when starting stage i fails, no later stage is spawned, every stage
\* from i on carries the same start error and reports ExitCode -1 with an
\* ErrExec wrapping it; the stages before i are spawned and still waited.
C8_StartFailureMarksRest ==
  StartFailed # {} =>
    LET f == Min(StartFailed)
    IN /\ \A j \in f..n : startErr[j] = startErr[f] /\ proc[j] = "none"
       /\ \A j \in 1..(f - 1) : proc[j] # "none"
       /\ pc \in {"reduce", "report", "done"} => \A j \in 1..(f - 1) : waited[j]
       /\ results # <<>> =>
            \A j \in f..n : /\ results[j].ExitCode = -1
                            /\ results[j].Err = ErrExec(startErr[f])

C8_Witness ==
  /\ Executed /\ n = 2 /\ startErr[1] = "notfound"
  /\ results[2].Err = ErrExec("notfound")

\* C9: with PTY mode requested on a chain of more than one stage, or on a
\* platform without PTY support, every entry point returns the configuration
\* error with no process spawned and no PTY opened; Start returns a handle
\* that is already done and whose Wait yields ExitCode -1 and that error.
C9_PtyConfigError ==
  (entry # "none" /\ usePTY /\ (n > 1 \/ ptySupported = "no")) =>
    LET err == IF n > 1 THEN ErrPTYPipe ELSE ErrPTYPlat
    IN /\ pc = "done" /\ results = <<>>
       /\ \A i \in Stages : proc[i] = "none"
       /\ ptyMaster = "nil" /\ ptySlave = "nil"
       /\ entry = "Run" => /\ ret.err = err
                           /\ ret.result.Err = err
                           /\ ret.result.ExitCode = -1
       /\ entry \in {"CombinedOutput", "PipelineResults"} =>
            ret.err = err /\ ret.combined = <<>> /\ ret.list = <<>>
       /\ entry = "Start" => /\ handle /\ done
                             /\ procResult.ExitCode = -1
                             /\ procResult.Err = err

C9_Witness ==
  /\ entry = "Start" /\ usePTY /\ n > 1 /\ done
  /\ procResult.Err = ErrPTYPipe

\* C10: no deadlock: while an execution is between its first spawn and the
\* return of pipeline.wait, some step of the engine, of a copy goroutine or of
\* a process is always possible, so the wait ends up returning.
C10_NoDeadlock ==
  pc \in {"start", "wait", "drain"} => ENABLED Next

\* pipeline.wait has returned
WaitReturned == pc \in {"reduce", "report", "finish", "done"} /\ idx > 0

\* C11: the write end of stage i's pipe is closed only once stage i's OS wait
\* has returned or was skipped because the stage never started; when
\* pipeline.wait has returned every stage with a downstream stage has its pipe
\* closed and the stdin of every spawned downstream stage has been closed.
C11_PipeClosedAfterWait ==
  /\ \A i \in 1..n :
        pwClosed[i] => hasPipe(i) /\ (waited[i] \/ startErr[i] # "nil")
  /\ WaitReturned =>
        \A i \in 1..(n - 1) :
          /\ pwClosed[i]
          /\ proc[i + 1] # "none" => inClosed[i + 1]

C11_Witness ==
  /\ WaitReturned /\ n = 2 /\ pwClosed[1] /\ waited[1] /\ exitStatus[1].code = 2
  /\ kind[2] = "filter" /\ waited[2] /\ inClosed[2]
  /\ stdoutBuf[2] = <<Tr(2, Out(1, 1))>>

(* ----------------------- the Process handle ---------------------------- *)
Spawned     == {i \in 1..n : spawned(i)}
TriedStages(T) == {t.stage : t \in T}
\* the error signalAll returns for the sends T: that of the lowest stage
\* whose send failed
FirstErr(T) ==
  LET E == {t \in T : t.err # "nil"}
  IN IF E = {} THEN "nil"
     ELSE (CHOOSE t \in E : \A u \in E : t.stage <= u.stage).err
\* the Result a completed handle has to hold
Expected    == IF procPipeline THEN primaryResult(results, pipeMode)
                               ELSE ErrResult(validatePTY(TRUE))

\* C12: a handle goes from running to done once and never back, and once it
\* is done no step (a further finish, Wait, Send, Terminate, GracefulShutdown,
\* a late kill timer) changes the stored Result.
C12_DoneIsLatched ==
  [][/\ done => (done' /\ procResult' = procResult)
     /\ resultOnce => resultOnce']_vars

C12_Witness ==
  /\ done /\ procPipeline /\ finishCalls = 2 /\ waits # <<>>
  /\ returned.name = "Terminate" /\ returned.wasDone
  /\ killTimer.state = "fired"
  /\ procResult = primaryResult(results, pipeMode)

\* C13: all Wait calls on one handle return the identical Result and the
\* identical error.
C13_WaitIdempotent ==
  \A j, k \in 1..Len(waits) : waits[j] = waits[k]

C13_Witness ==
  /\ Len(waits) = 2 /\ waits[1].result.ExitCode = 2 /\ finishCalls = 2

\* C14: Wait returns only after the background wait-and-reduce sequence has
\* finished: whenever done is closed the primary Result is already stored, and
\* every Wait returned exactly that Result and its Err.
C14_WaitSeesStoredResult ==
  /\ done => /\ procResult = Expected
             /\ procPipeline => (pc = "done" /\ results # <<>>)
  /\ \A k \in 1..Len(waits) :
       waits[k].result = Expected /\ waits[k].err = Expected.Err

C14_Witness ==
  /\ procPipeline /\ Len(waits) = 1 /\ n = 2
  /\ waits[1].result.signal = "term" /\ waits[1].result.ExitCode = -1

\* C15: Start has made every spawn attempt before it returns the handle: with
\* the handle out, pipeline.start has ended and every stage is spawned or
\* marked with a start error; a Send or Terminate reaches every spawned stage
\* and returns "process not started" only when no stage was spawned.
C15_SpawnBeforeHandle ==
  /\ (handle /\ procPipeline) =>
        /\ pc \notin {"idle", "start"}
        /\ \A i \in 1..n : spawned(i) \/ startErr[i] # "nil"
  /\ (returned.name \in {"Send", "Terminate"} /\ procPipeline) =>
        /\ TriedStages(returned.tried) = Spawned
        /\ returned.err = "notstarted" => Spawned = {}

C15_Witness ==
  /\ returned.name = "Send" /\ returned.err = "nil" /\ n = 2
  /\ pc = "wait" /\ idx = 1 /\ ~waited[1] /\ ~waited[2]
  /\ TriedStages(returned.tried) = {1, 2}
  /\ \A t \in returned.tried : ~t.whenDone

\* C16: Send and Terminate try every spawned stage, go on after a failed
\* send, and return the error of the first failed send; they return "process
\* not started" when the handle has no pipeline or no stage was spawned.
C16_SignalAll ==
  returned.name \in {"Send", "Terminate"} =>
    /\ \A t \in returned.tried :
         t.sig = IF returned.name = "Send" THEN returned.asked ELSE "kill"
    /\ IF ~procPipeline \/ Spawned = {}
         THEN returned.err = "notstarted" /\ returned.tried = {}
         ELSE /\ TriedStages(returned.tried) = Spawned
              /\ returned.err = FirstErr(returned.tried)

C16_Witness ==
  /\ returned.name = "Send" /\ returned.err = "finished"
  /\ \E t, u \in returned.tried :
       /\ t.stage = 1 /\ t.err = "finished"
       /\ u.stage = 2 /\ u.err = "nil"

\* C17: a Send begun after a Wait has returned gives a non-nil error.
C17_SendAfterExit ==
  (returned.name = "Send" /\ returned.late) => returned.err # "nil"

C17_Witness ==
  /\ returned.name = "Send" /\ returned.late /\ returned.err = "finished"
  /\ n = 1 /\ exitStatus[1] = [code |-> 0, sig |-> "nil"]

\* C18: a single-stage process killed by a signal (from Send, Interrupt,
\* Terminate, the kill timer or GracefulShutdown) completes with a nil Err,
\* ExitCode -1 and the killing signal recorded, and Wait returns a nil error.
C18_KilledBySignal ==
  (done /\ procPipeline /\ n = 1 /\ exitStatus[1].sig # "nil") =>
    /\ procResult.Err = NilErr
    /\ procResult.ExitCode = -1
    /\ procResult.signal = exitStatus[1].sig
    /\ \A k \in 1..Len(waits) :
         waits[k].err = NilErr /\ waits[k].result.signal = exitStatus[1].sig

C18_Witness ==
  /\ done /\ procPipeline /\ n = 1 /\ exitStatus[1].sig = "killed"
  /\ killTimer.state = "fired" /\ calls = 0 /\ Len(waits) = 1

\* C19: GracefulShutdown with timeout <= 0 is Terminate: it sends a kill, not
\* the caller's signal, to every spawned stage, returns what signalAll gives
\* for those sends, and never selects on or blocks for done.
C19_GracefulImmediate ==
  /\ (call.name = "GracefulShutdown" /\ ~call.positive) =>
        call.phase = "signal" /\ call.sig = "kill"
  /\ (returned.name = "GracefulShutdown" /\ ~returned.positive) =>
        /\ returned.branch = "none"
        /\ \A t \in returned.tried : t.sig = "kill"
        /\ IF ~procPipeline \/ Spawned = {}
             THEN returned.err = "notstarted" /\ returned.tried = {}
             ELSE /\ TriedStages(returned.tried) = Spawned
                  /\ returned.err = FirstErr(returned.tried)

C19_Witness ==
  /\ returned.name = "GracefulShutdown" /\ ~returned.positive
  /\ returned.err = "nil" /\ ~returned.wasDone /\ ~done
  /\ n = 2 /\ TriedStages(returned.tried) = {1, 2}
  /\ exitStatus[1].sig = "killed" /\ exitStatus[2].sig = "killed"

\* the kills a GracefulShutdown has tried so far
Kills(T) == {t \in T : t.sig = "kill"}

\* C20: GracefulShutdown with timeout > 0 sends the caller's signal first; it
\* tries a kill only after its timer has elapsed and its select has taken the
\* timeout case, and a kill of its that reached a process came before the
\* handle was done; returning by the done case it has tried no kill; after
\* the timeout case it has sent Terminate to every spawned stage and returns
\* only once the handle is done.
C20_GracefulEscalation ==
  /\ (call.name = "GracefulShutdown" /\ call.positive) =>
        /\ \A t \in call.tried \ Kills(call.tried) : t.sig = call.asked
        /\ call.phase \in {"signal", "select"} => Kills(call.tried) = {}
        /\ call.phase \in {"escalate", "block"} =>
              /\ call.elapsed
              /\ TriedStages(call.tried \ Kills(call.tried)) = Spawned
        /\ call.phase = "block" => TriedStages(Kills(call.tried)) = Spawned
        /\ \A t \in Kills(call.tried) : t.err = "nil" => ~t.whenDone
  /\ (returned.name = "GracefulShutdown" /\ returned.positive) =>
        /\ \A t \in Kills(returned.tried) : t.err = "nil" => ~t.whenDone
        /\ returned.branch = "done" =>
              /\ Kills(returned.tried) = {}
              /\ returned.wasDone /\ returned.err = "nil"
        /\ returned.branch = "timeout" =>
              /\ TriedStages(Kills(returned.tried)) = Spawned
              /\ returned.wasDone /\ returned.err = "nil"
        /\ returned.branch = "none" =>
              /\ Kills(returned.tried) = {}
              /\ returned.err # "nil"

C20_Witness ==
  /\ returned.name = "GracefulShutdown" /\ returned.positive
  /\ returned.branch = "timeout" /\ n = 1 /\ done
  /\ exitStatus[1].sig = "killed"
  /\ \E t \in returned.tried : t.sig = "term" /\ t.err = "nil"

\* the sends of the first signalAll of a GracefulShutdown, and what that
\* signalAll returned for them
FirstSends(T) == T \ Kills(T)
FirstSendErr(T) ==
  IF ~procPipeline \/ Spawned = {} THEN "notstarted" ELSE FirstErr(FirstSends(T))

\* C21 as stated: GracefulShutdown with timeout > 0 returns nil, both when the
\* process has terminated by either path and when the first signal delivery
\* failed; when it returns nil after a successful delivery the handle is done.
C21_Original ==
  (returned.name = "GracefulShutdown" /\ returned.positive) =>
     /\ returned.err = "nil"
     /\ FirstSendErr(returned.tried) = "nil" => returned.wasDone

\* C21 amended: GracefulShutdown with timeout > 0 returns nil exactly when
\* the first signal delivery succeeded, and then the handle is done, by the
\* signal being honoured or by the escalated kill; when the first delivery
\* failed it returns that delivery's error.
C21_GracefulReturn ==
  (returned.name = "GracefulShutdown" /\ returned.positive) =>
     /\ returned.err = FirstSendErr(returned.tried)
     /\ returned.err = "nil" =>
           /\ returned.wasDone /\ done
           /\ returned.branch \in {"done", "timeout"}
           /\ TriedStages(FirstSends(returned.tried)) = Spawned

C21_Witness ==
  /\ returned.name = "GracefulShutdown" /\ returned.positive
  /\ returned.err = "finished" /\ returned.wasDone /\ n = 1
  /\ exitStatus[1] = [code |-> 0, sig |-> "nil"]

\* C22: GracefulShutdown with timeout > 0 on a handle without a pipeline or
\* without a spawned stage returns "process not started" at once: it sends
\* nothing, never reaches its select, tries no kill and does not wait for
\* done.
C22_GracefulSendFails ==
  /\ (call.name = "GracefulShutdown" /\ call.positive
         /\ (~procPipeline \/ Spawned = {})) =>
        call.phase = "signal" /\ call.tried = {}
  /\ (returned.name = "GracefulShutdown" /\ returned.positive
         /\ (~procPipeline \/ Spawned = {})) =>
        /\ returned.err = "notstarted"
        /\ returned.branch = "none"
        /\ returned.tried = {}

C22_Witness ==
  /\ returned.name = "GracefulShutdown" /\ returned.positive
  /\ procPipeline /\ Spawned = {} /\ n = 2
  /\ returned.err = "notstarted" /\ ~returned.wasDone /\ ~done

\* C23: a GracefulShutdown with timeout > 0 whose first delivery succeeded
\* eventually returns, on single-stage and on multi-stage pipelines: it has
\* reached its select, and a kill makes each process exit.
C23_GracefulReturns ==
  (call.name = "GracefulShutdown" /\ call.phase = "select")
     ~> (returned.name = "GracefulShutdown")

\* timers still pending
Pending == {k \in Timers : timerAt(k).state = "armed"}

\* while every KillAfter call so far was made before the previous timer
\* fired: one timer at most is pending, every replaced timer is stopped and
\* has run no Terminate, and a Terminate that fires comes from the timer of
\* the most recent call, not before that call's duration has passed
ReArmed ==
  ~armedLate =>
    /\ Cardinality(Pending) <= 1
    /\ \A k \in 1..Len(oldTimers) :
         oldTimers[k].state = "stopped" /\ oldTimers[k].arms = k
    /\ killTimer.arms = Len(oldTimers) + (IF killTimer.state = "nil" THEN 0 ELSE 1)
    /\ killTimer.state \in {"firing", "fired"} =>
         killTimer.firedAt >= killTimer.due

\* C24: KillAfter called again before the previous timer fired replaces that
\* timer: at most one kill timer is pending, earlier timers never fire, and
\* the one deferred Terminate that fires is that of the most recent call,
\* at its duration; an armed handle ends up with that timer fired.
C24_KillAfterReArm ==
  /\ []ReArmed
  /\ (killTimer.state = "armed") ~> (killTimer.state = "fired")

C24_Witness ==
  /\ ~armedLate /\ killTimer.arms = 2 /\ killTimer.state = "fired"
  /\ killTimer.due = 1 /\ killTimer.firedAt = 1
  /\ oldTimers[1].due = 2 /\ oldTimers[1].state = "stopped"
  /\ done /\ n = 1 /\ procResult.signal = "killed"

(* --------------------------- cancellation ------------------------------ *)
\* errors.Is(err, context.Canceled) || errors.Is(err, context.DeadlineExceeded),
\* looking through ErrExec.Unwrap
errorsIsContext(e) ==
  e.kind = "ctx" \/ (e.kind = "ErrExec" /\ e.wrapped = "ctx")

\* C25: a single command whose context had fired before it was started, or
\* whose running process the firing context killed, gives a Result with a
\* cancellation Err and ExitCode -1, and Run returns that error.
C25_Cancelled ==
  (pc = "done" /\ entry = "Run" /\ n = 1
     /\ (startErr[1] = "ctx" \/ exitStatus[1].sig = "killed")) =>
    /\ errorsIsContext(ret.result.Err)
    /\ ret.result.ExitCode = -1
    /\ ret.err = ret.result.Err

C25_Witness ==
  /\ pc = "done" /\ entry = "Run" /\ n = 1 /\ ctx[1] = "done"
  /\ exitStatus[1].sig = "killed" /\ waitErr[1] = "exit"
  /\ stdoutBuf[1] = <<Out(1, 1)>>
  /\ ret.err = CtxErr

\* stages that were started and whose OS wait returned no error
CleanWaits == {i \in 1..n : startErr[i] = "nil" /\ waited[i] /\ waitErr[i] = "nil"}

C27_Original ==
  \A j \in 1..n : ctx[j] = "none" =>
    /\ exitStatus[j].sig # "killed" /\ ~watchErr[j]
    /\ results # <<>> => ~errorsIsContext(results[j].Err)

\* C27 amended: a stage without a bound context is never killed by the
\* firing of another stage's context, and its Err is a cancellation only as
\* the start error it shares with an earlier stage whose context had fired
\* before the spawn, in which case it was never spawned.
C27_NoCrossStageCancel ==
  \A j \in 1..n : ctx[j] = "none" =>
    /\ exitStatus[j].sig # "killed" /\ ~watchErr[j]
    /\ results # <<>> =>
          /\ results[j].Err.kind # "ctx"
          /\ errorsIsContext(results[j].Err) =>
                /\ proc[j] = "none"
                /\ \E i \in 1..(j - 1) :
                      /\ ctx[i] = "done" /\ proc[i] = "none"
                      /\ results[i].Err = results[j].Err

C27_Witness ==
  /\ pc = "done" /\ n = 2 /\ ctx[1] = "done" /\ ctx[2] = "none"
  /\ exitStatus[1].sig = "killed" /\ results[1].Err = CtxErr
  /\ exitStatus[2] = [code |-> 2, sig |-> "nil"] /\ waitErr[2] = "exit"
  /\ results[2].Err = NilErr

(* ------------------------ pseudo-terminal capture ---------------------- *)
\* a PTY stage has been started
PtyStarted == ptyDone # "nil"
\* the chunks the program at stage 1 has printed on either stream
Printed == written[1] + (IF errWritten[1] THEN 1 ELSE 0)

\* C28: for a PTY stage pipeline.wait returns only after the drain goroutine
\* has sent its outcome, which it does once the master is read empty: when
\* the Result is computed every chunk the child wrote is in its Stdout; a
\* drain error is the stage's wait error only if the OS wait returned none.
C28_DrainBeforeResult ==
  PtyStarted =>
    /\ WaitReturned =>
          /\ ptyDone = "taken" /\ ptyBuf = <<>> /\ waited[1]
          /\ Len(stdoutBuf[1]) = Printed
          /\ waitErr[1] = "drain" => cmdWaitErr(1) = "nil"
          /\ cmdWaitErr(1) # "nil" => waitErr[1] = cmdWaitErr(1)
    /\ results # <<>> =>
          /\ results[1].Stdout = stdoutBuf[1]
          /\ Len(results[1].Stdout) = Printed

C28_Witness ==
  /\ PtyStarted /\ pc = "done" /\ entry = "Run"
  /\ waitErr[1] = "drain" /\ exitStatus[1].code = 0
  /\ written[1] = 2 /\ errWritten[1] /\ Len(ret.result.Stdout) = 3

\* what the PTY has carried so far: the chunks captured and those still to
\* be read from the master
Stream == stdoutBuf[1] \o ptyBuf
IsPrefix(a, b) == Len(a) <= Len(b) /\ SubSeq(b, 1, Len(a)) = a

\* the completed lines of a sequence of chunks, each line the sequence of
\* its chunks
RECURSIVE linesFrom(_, _, _)
linesFrom(cs, k, cur) ==
  IF k > Len(cs) THEN <<>>
  ELSE IF HasNL(cs[k]) THEN <<Append(cur, cs[k])>> \o linesFrom(cs, k + 1, <<>>)
  ELSE linesFrom(cs, k + 1, Append(cur, cs[k]))
LinesOf(cs) == linesFrom(cs, 1, <<>>)

\* in PTY mode nothing reaches the stderr capture, the PTY carries the
\* chunks of both streams, and a registered callback has received every
\* completed line captured so far
PtyMerged ==
  ptyMaster # "nil" =>
    /\ stderrBuf[1] = <<>>
    /\ Len(Stream) = Printed
    /\ {Stream[k] : k \in 1..Len(Stream)} =
          {Out(1, k) : k \in 1..written[1]}
            \cup (IF errWritten[1] THEN {ErrOut(1)} ELSE {})
    /\ onStdout.set => onStdout.lines = LinesOf(stdoutBuf[1])
    /\ onStderr.set => onStderr.lines = LinesOf(stdoutBuf[1])
    /\ results # <<>> =>
          /\ results[1].Stderr = <<>>
          /\ results[1].Stdout = Stream

\* C29: in PTY mode Result.Stderr is empty, Result.Stdout holds everything
\* the child wrote to stdout or stderr in the order it was written (the
\* stream only ever grows at its end), and with OnStdout and OnStderr both
\* registered each has received every line.
C29_PtyMergesStreams ==
  /\ []PtyMerged
  /\ [][IsPrefix(Stream, Stream')]_vars

C29_Witness ==
  /\ pc = "done" /\ entry = "Run" /\ ptyMaster # "nil"
  /\ onStdout.set /\ onStderr.set
  /\ ret.result.Stdout = <<Out(1, 1), ErrOut(1), Out(1, 2)>>
  /\ ret.result.Stderr = <<>>
  /\ onStderr.lines = << <<Out(1, 1), ErrOut(1)>>, <<Out(1, 2)>> >>
  /\ onStdout.lines = onStderr.lines

(* --------------------------- combined output --------------------------- *)
\* C30: CombinedOutput returns the combined buffer of the one stage selected
\* as primary under the pipe mode, which holds that stage's own stdout and
\* stderr chunks only, and the error of the primary Result.
C30_CombinedOfPrimary ==
  (pc = "done" /\ entry = "CombinedOutput" /\ results # <<>>) =>
    LET p == IF pipeMode = pipeStrict /\ FailedStages # {}
               THEN Min(FailedStages) ELSE Len(results)
    IN /\ ret.combined = combinedBuf[p]
       /\ \A k \in 1..Len(ret.combined) : ret.combined[k][1] = p
       /\ Len(ret.combined) = Len(results[p].Stdout) + Len(results[p].Stderr)
       /\ ret.err = primaryResult(results, pipeMode).Err

C30_Witness ==
  /\ pc = "done" /\ entry = "CombinedOutput" /\ n = 2 /\ pipeMode = pipeStrict
  /\ results # <<>> /\ results[1].ExitCode = 2
  /\ ret.combined = <<Out(1, 1), ErrOut(1)>>
  /\ combinedBuf[2] = <<Tr(2, Out(1, 1))>>

(* ------------------------- chains and pipe modes ----------------------- *)
\* C31: PipelineResults returns one Result per stage, the i-th one being that
\* of the i-th Cmd counted from the root whichever Cmd it was called on, and
\* its error is the Err of the first Result that has one (nil when none has),
\* whatever the pipe mode.
C31_PipelineResults ==
  (pc = "done" /\ entry = "PipelineResults") =>
    /\ Len(ret.list) = n
    /\ \A i \in 1..n :
         /\ ret.list[i].Err.kind = "ErrExec" <=> startErr[i] # "nil"
         /\ startErr[i] = "nil" =>
              /\ waited[i]
              /\ ret.list[i].signal = exitStatus[i].sig
              /\ exitStatus[i].sig = "nil" => ret.list[i].ExitCode = exitStatus[i].code
         /\ ret.list[i].Stdout = stdoutBuf[i]
    /\ LET E == {i \in 1..n : ret.list[i].Err # NilErr}
       IN ret.err = IF E = {} THEN NilErr ELSE ret.list[Min(E)].Err

\* PipelineResults called on the first Cmd of a strict two-stage chain whose
\* first program exits with code 2 and whose second one cannot be started
C31_Witness ==
  /\ pc = "done" /\ entry = "PipelineResults" /\ n = 2 /\ recv = 1
  /\ pipeMode = pipeStrict
  /\ ret.list[1].ExitCode = 2 /\ ret.list[1].Err = NilErr
  /\ ret.list[2].Err # NilErr /\ ret.err = ret.list[2].Err

(* ------------------------------ pipe wiring ---------------------------- *)
InFlight(i) == IF pending[i] = None THEN <<>> ELSE <<pending[i]>>

Spawns == SelectSeq(events, LAMBDA e : e[1] = "spawn")
OsWaits == SelectSeq(events, LAMBDA e : e[1] = "wait")

\* C33: spawns are attempted for stages 1, 2, ... in that order, each stage at
\* most once; OS waits are made in ascending stage order, each stage at most
\* once and only for a stage whose start succeeded; no spawn attempt follows
\* an OS wait; once pipeline.wait has returned, the stages waited are exactly
\* those whose start succeeded.
C33_StartWaitOrder ==
  /\ \A k \in 1..Len(Spawns) : Spawns[k][2] = k
  /\ \A j, k \in 1..Len(OsWaits) : j < k => OsWaits[j][2] < OsWaits[k][2]
  /\ \A k \in 1..Len(OsWaits) :
       /\ proc[OsWaits[k][2]] = "exited" /\ startErr[OsWaits[k][2]] = "nil"
       /\ \E j \in 1..Len(Spawns) : Spawns[j][2] = OsWaits[k][2]
  /\ \A j, k \in 1..Len(events) :
       (j < k /\ events[j][1] = "wait") => events[k][1] = "wait"
  /\ WaitReturned =>
       {OsWaits[k][2] : k \in 1..Len(OsWaits)} =
         {i \in 1..n : proc[i] # "none"}

\* both stages of a chain spawned, then both waited, the second program
\* having exited with a failure
C33_Witness ==
  /\ WaitReturned /\ n = 2
  /\ events = <<(<<"spawn", 1>>), (<<"spawn", 2>>), (<<"wait", 1>>), (<<"wait", 2>>)>>
  /\ exitStatus[2].code = 2

(* ------------------- the pipe mode and the execution ------------------- *)
\* stage i was not reached by pipeline.start because an earlier spawn failed
CutOff(i) == \E j \in 1..n : j <= i /\ startErr[j] # "nil"

C35_CombinedInOrder ==
  \A i \in 1..n :
    /\ ~(inComb[i].out # None /\ inComb[i].err # None)
    /\ (withCombined /\ waited[i]) => combinedBuf[i] = produced[i]

(* --------------------------- mode of a chain --------------------------- *)
\* the mode the builder calls made so far ask for
AskedMode == IF lastMode = <<>> THEN pipeStrict ELSE lastMode[1]

\* C36: whatever Pipe, PipeStrict and PipeBestEffort calls were made, on
\* whichever Cmds of the chain, and whichever Cmd the entry point is called
\* on, the mode used is that of the last PipeStrict / PipeBestEffort call,
\* strict when there was none: Run and Start report the Result that mode
\* selects, CombinedOutput its error.
C36_ModeOfChain ==
  /\ modeUsed = AskedMode
  /\ (pc = "done" /\ results # <<>>) =>
       /\ entry \in {"Run", "Start"} =>
            Reported = primaryResult(results, AskedMode)
       /\ entry = "CombinedOutput" =>
            ret.err = primaryResult(results, AskedMode).Err

\* PipeBestEffort called after Pipe (the second Cmd still holds the copy of
\* the strict mode it was created with), Run called on the second Cmd: the
\* first program failed and the Result of the last stage is reported
C36_Witness ==
  /\ pc = "done" /\ entry = "Run" /\ n = 2 /\ recv = 2
  /\ lastMode = <<pipeBestEffort>> /\ stageMode[2] = pipeStrict
  /\ Len(results) = 2 /\ results[1].ExitCode = 2 /\ results[2].ExitCode = 0
  /\ ret.result = results[2]

(* ----------------------------- line callbacks -------------------------- *)
RECURSIVE Flatten(_)
Flatten(ws) == IF ws = <<>> THEN <<>> ELSE Head(ws) \o Flatten(Tail(ws))

LFs(str) == {k \in 1..Len(str) : str[k] = LF}
\* position of the j-th line feed of str, and of the first byte of its line
LineEnd(str, j) ==
  CHOOSE k \in LFs(str) : Cardinality({m \in LFs(str) : m < k}) = j - 1
LineStart(str, j) == IF j = 1 THEN 1 ELSE LineEnd(str, j - 1) + 1
StripOneCR(line) ==
  IF line # <<>> /\ line[Len(line)] = CR THEN SubSeq(line, 1, Len(line) - 1)
                                          ELSE line
\* the segments of str that end with a line feed, without the line feed and
\* without one carriage return before it
Segments(str) ==
  [j \in 1..Cardinality(LFs(str)) |->
     StripOneCR(SubSeq(str, LineStart(str, j), LineEnd(str, j) - 1))]
\* the bytes after the last line feed of str
Unterminated(str) ==
  SubSeq(str, Cardinality(LFs(str)) + Len(Flatten(
           [j \in 1..Cardinality(LFs(str)) |->
              SubSeq(str, LineStart(str, j), LineEnd(str, j) - 1)])) + 1, Len(str))

\* C37: whatever the split of the byte stream into Writes, the callback has
\* received, in order, exactly the segments of the bytes written so far that
\* end with a line feed, each without its line feed and without one carriage
\* return before it; the bytes after the last line feed are kept in the
\* adapter's buffer and are not delivered.
C37_LinesIgnoreChunking ==
  LET str == Flatten(stdoutBuf[1]) IN
  /\ onStdout.lines = Segments(str)
  /\ lineBuf = Unterminated(str)

\* a line whose carriage return ends one Write and whose line feed begins
\* the next, followed by bytes without a line feed
C37_Witness ==
  /\ osOut[1] = <<>>
  /\ stdoutBuf[1] = <<(<<97, CR>>), (<<LF, 97>>), (<<97>>)>>
  /\ onStdout.lines = <<(<<97>>)>>
  /\ lineBuf = <<97, 97>>

(* ------------------------- PTY file descriptors ------------------------ *)
\* the drain goroutine has left io.Copy and sent its result
CopyEnded == ptyDone \in {"ok", "err", "taken"}
AllClosed == closes = opens

\* the fate of the two files in every state
PtyFiles ==
  /\ closes.master <= opens.master /\ opens.master <= 1
  /\ closes.slave <= opens.slave /\ opens.slave <= 1
  /\ setupErr[1] # "nil" => (AllClosed /\ Spawns = <<>>)
  /\ ptySlave = "open" => Spawns = <<>>
  /\ pc \notin {"idle", "start"} => closes.slave = opens.slave
  /\ (ptyMaster = "closed" /\ startErr[1] = "nil") => CopyEnded
  /\ pc = "done" => (AllClosed \/ (ptyMaster = "open" /\ CopyEnded))

\* the step of pipeline.start that spawns
PtySpawnStep ==
  (Len(Spawns') > Len(Spawns) /\ opens.master = 1) =>
     IF startErr'[1] # "nil"
       THEN closes.master = 0 /\ closes.slave = 0 /\ closes' = opens'
       ELSE closes'.slave = 1 /\ closes'.master = 0 /\ ptyMaster' = "open"

\* C38: no PTY file is closed more often than it was opened, and by the end
\* each is closed once. A failed spawn closes master and slave in start; a
\* successful spawn closes the slave in the same iteration of start and
\* leaves the master to the drain goroutine, which closes it after its copy
\* has ended; a failed PTY setup leaves nothing open and no spawn is
\* attempted.
C38_PtyClosedOnce ==
  /\ []PtyFiles
  /\ [][PtySpawnStep]_vars

\* a PTY run that spawned its program and returned, the master closed by the
\* drain goroutine
C38_Witness ==
  /\ pc = "done" /\ usePTY /\ startErr[1] = "nil"
  /\ Spawns = <<(<<"spawn", 1>>)>>
  /\ opens = [master |-> 1, slave |-> 1]
  /\ closes = [master |-> 1, slave |-> 1]
  /\ ptyMaster = "closed" /\ ptySlave = "closed"

(* --------------------------- context bindings -------------------------- *)
IsTimer(k) == ctxs[k].kind \in TimerKinds
Over(k) == ctxs[k].state # "live"

\* the contexts whose end ends c.ctx: c.ctx and the contexts it derives from
RECURSIVE Chain(_)
Chain(k) == IF k = 0 THEN {} ELSE {k} \cup Chain(ctxs[k].parent)

LatestOnly ==
  /\ \A k \in 1..Len(ctxs) : (IsTimer(k) /\ k # cmdCtx) => ctxs[k].state = "cancelled" \/ ctxs[k].state = "expired"
  /\ \A k \in Chain(cmdCtx) : IsTimer(k) => k = cmdCtx
  /\ \A k \in Chain(cmdCtx) : ~IsTimer(k) => ctxs[k].parent = 0
  /\ cmdCancel = (IF cmdCtx # 0 /\ IsTimer(cmdCtx) THEN cmdCtx ELSE 0)
  /\ ctx[1] = "done" <=> \E k \in Chain(cmdCtx) : Over(k)
  /\ ctx[1] = "none" <=> cmdCtx = 0

\* a step that binds a timeout or a deadline
TimerDerives ==
  (Len(ctxs') > Len(ctxs) /\ ctxs'[Len(ctxs')].kind \in TimerKinds) =>
     /\ cmdCtx' = Len(ctxs')
     /\ ctxs'[cmdCtx'].parent =
          (IF cmdCtx # 0 /\ ~IsTimer(cmdCtx) /\ ~Over(cmdCtx) THEN cmdCtx ELSE 0)

\* C39: after any sequence of WithContext, WithTimeout and WithDeadline on
\* one Cmd, every timeout or deadline context of an earlier call is over and
\* is not among the contexts the command's context derives from; the held
\* cancel function is that of the current binding; and a new timeout or
\* deadline derives from the caller's context exactly when that context was
\* the binding before it and was not over, else from the background context.
C39_LatestBindingGoverns ==
  /\ []LatestOnly
  /\ [][TimerDerives]_vars

\* WithContext(u).WithTimeout(d1).WithDeadline(t2): the timeout derived from
\* u is cancelled, the deadline derives from the background context
C39_Witness ==
  /\ ctxs = <<[kind |-> "user", parent |-> 0, state |-> "live"],
              [kind |-> "timeout", parent |-> 1, state |-> "cancelled"],
              [kind |-> "deadline", parent |-> 0, state |-> "live"]>>
  /\ cmdCtx = 3 /\ cmdCancel = 3 /\ ctx[1] = "live"

====
